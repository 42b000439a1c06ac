----------------------------- MODULE InboxScan -----------------------------
(***************************************************************************)
(* The daily Celery task scan_excel_inbox beside the applies of ExcelSync: *)
(* it stages every file of the inbox as an upload would, in one database   *)
(* session, and has the admins told of each preview.  It never moves a     *)
(* file, so the same files are staged again on the next day.               *)
(***************************************************************************)
EXTENDS ExcelSync, Sequences

CONSTANTS
    BadFile,  \* workbooks on which parse_workbook raises
    Rank,     \* the place of each file in the order of their paths
    MayFail   \* TRUE: a query of the scan, or the broker, may fail

ASSUME InboxAssumption ==
    /\ File \cap BadFile = {}
    /\ IsFiniteSet(File \cup BadFile)
    /\ Rank \in Injection(File \cup BadFile, Nat)
    /\ Token \cap {None, "error"} = {}
    /\ MayFail \in BOOLEAN

VARIABLES
    inbox,     \* the .xlsx files in EXCEL_INBOX_DIR
    files, at, \* the files of the latest scan, and the one it has come to
    fresh,     \* the token just staged for files[at], before its announcement
    aborted,   \* TRUE: the transaction of the scan's session has failed
    out,       \* out["files"]: <<file, token>> or <<file, "error">>
    announced, \* <<token, file>> of the notifications that scans have queued
    broke      \* history: a query, the broker or the worker has failed in this scan

scanVars == <<files, at, fresh, aborted, out, announced, broke>>
inboxVars == <<inbox, scanVars>>
allVars == <<vars, inboxVars>>

InboxInit ==
    /\ SyncInit
    /\ inbox = {} /\ files = <<>> /\ at = 1 /\ fresh = None /\ aborted = FALSE
    /\ out = {} /\ announced = {} /\ broke = FALSE

(* An operator copies a file into the directory, or takes one away.        *)
ChangeInbox(f) ==
    /\ inbox' = IF f \in inbox THEN inbox \ {f} ELSE inbox \cup {f}
    /\ UNCHANGED <<vars, scanVars>>

Scanning == at <= Len(files)

(* sorted(inbox.glob("*.xlsx")).                                           *)
Sorted(dir) ==
    {fs \in [1..Cardinality(dir) -> dir] :
        \A i, j \in 1..Cardinality(dir) : i < j => Rank[fs[i]] < Rank[fs[j]]}

(* 08:00.  A scan needs a token for each file (the bound on Token).        *)
StartScan ==
    /\ ~Scanning /\ inbox # {}
    /\ Cardinality(inbox \cap File) <= Cardinality(Token \ issued)
    /\ files' \in Sorted(inbox)
    /\ at' = 1 /\ out' = {} /\ aborted' = FALSE /\ broke' = FALSE
    /\ UNCHANGED <<vars, inbox, fresh, announced>>

(* parse_and_stage returns, and the file is reported.                      *)
StageFile(t) ==
    /\ Scanning /\ fresh = None /\ files[at] \in File /\ ~aborted
    /\ Upload(t, files[at])
    /\ fresh' = t
    /\ out' = out \cup {<<files[at], t>>}
    /\ UNCHANGED <<inbox, files, at, aborted, announced, broke>>

(* Mutants: the try is around the loop; a file that fails is tried again.  *)
FailAll ==
    /\ out' = out \cup {<<files[at], "error">>}
    /\ at' = Len(files) + 1
    /\ fresh' = None

FailAndRetry ==
    /\ out' = out \cup {<<files[at], "error">>}
    /\ at' = at
    /\ fresh' = None

(* "except Exception": an error is reported, and the loop goes on.         *)
Fail ==
    /\ out' = out \cup {<<files[at], "error">>}
    /\ at' = at + 1
    /\ fresh' = None

SkipBadFile ==
    /\ Scanning /\ files[at] \in BadFile
    /\ Fail
    /\ UNCHANGED <<vars, inbox, files, aborted, announced, broke>>

(* The query of build_diff fails.  Nobody rolls the session back, so that  *)
(* the queries for the later files fail as well.                           *)
QueryFails ==
    /\ Scanning /\ fresh = None /\ files[at] \in File
    /\ aborted \/ MayFail
    /\ aborted' = TRUE /\ broke' = TRUE
    /\ Fail
    /\ UNCHANGED <<vars, inbox, files, announced>>

(* Mutant: the loop variable has moved on when the message is put together *)
AnnounceNext ==
    /\ fresh # None
    /\ announced' = announced \cup {<<fresh, files[IF at < Len(files) THEN at + 1 ELSE at]>>}
    /\ fresh' = None /\ at' = at + 1
    /\ UNCHANGED <<vars, inbox, files, aborted, out, broke>>

(* notify_task.delay                                                       *)
Announce ==
    /\ fresh # None
    /\ announced' = announced \cup {<<fresh, files[at]>>}
    /\ fresh' = None /\ at' = at + 1
    /\ UNCHANGED <<vars, inbox, files, aborted, out, broke>>

(* The broker does not answer: the file, already reported as staged, is    *)
(* reported as an error too.                                               *)
AnnounceFails ==
    /\ MayFail /\ fresh # None
    /\ broke' = TRUE
    /\ Fail
    /\ UNCHANGED <<vars, inbox, files, aborted, announced>>

(* The worker dies: the task was acknowledged when it was taken.           *)
CrashScan ==
    /\ MayCrash /\ Scanning
    /\ at' = Len(files) + 1
    /\ fresh' = None /\ broke' = TRUE
    /\ UNCHANGED <<vars, inbox, files, aborted, out, announced>>

ScanStep == \/ \E t \in Token : StageFile(t)
            \/ SkipBadFile \/ QueryFails \/ Announce \/ AnnounceFails

InboxNext ==
    \/ \E f \in File \cup BadFile : ChangeInbox(f)
    \/ StartScan \/ ScanStep \/ CrashScan
    \/ /\ \/ \E t \in Token : ExpireToken(t)
          \/ \E s \in Session : Apply(s)
       /\ UNCHANGED inboxVars

InboxSpec == InboxInit /\ [][InboxNext]_allVars

(* A worker that runs the task runs it to its end, unless it dies.         *)
FairInbox == InboxSpec /\ WF_allVars(ScanStep)

-----------------------------------------------------------------------------

(* What a notification of the scan links to is the preview of the file it  *)
(* names, as long as there is one (tasks.py:139-150).                      *)
AnnouncedPreviews ==
    \A a \in announced : /\ a[1] \in issued
                         /\ staged[a[1]] # None => staged[a[1]].file = a[2]

(* An unreadable file harms no other: unless a query, the broker or the    *)
(* worker fails, a scan that is over has staged and announced every        *)
(* readable file of the inbox, and reported the others (tasks.py:126-153). *)
BadFilesHarmNobody ==
    ~Scanning /\ ~broke =>
        \A f \in {files[i] : i \in DOMAIN files} :
            IF f \in File THEN \E t \in Token : <<f, t>> \in out /\ <<t, f>> \in announced
                          ELSE <<f, "error">> \in out

(* Every scan comes to its end, whatever fails in it.                      *)
ScansEnd == Scanning ~> ~Scanning
=============================================================================
