-------------------------- MODULE InboxScanProofs --------------------------
(***************************************************************************)
(* Proofs about the inbox scan for any files, tokens and applies beside    *)
(* it, failures and crashes included.                                      *)
(***************************************************************************)
EXTENDS InboxScan, ExcelSyncProofs, FiniteSetTheorems

(* To the rest of the system a scan is some more uploads: with its own     *)
(* variables hidden, the synchronisation beside the scan is the one of     *)
(* ExcelSync, and what is proved of it there holds here (tasks.py:128).    *)
THEOREM InboxImplementsSync == InboxSpec => SyncSpec
<1>1. InboxInit => SyncInit
  BY DEF InboxInit
<1>2. [InboxNext]_allVars => [SyncNext]_vars
  <2>1. ASSUME NEW t \in Token, StageFile(t) PROVE SyncNext
    BY <2>1 DEF StageFile, SyncNext
  <2>2. UNCHANGED allVars => UNCHANGED vars
    BY DEF allVars
  <2>3. (\E t \in Token : ExpireToken(t)) \/ (\E s \in Session : Apply(s)) => SyncNext
    BY DEF SyncNext
  <2> QED
    BY <2>1, <2>2, <2>3
       DEF InboxNext, ChangeInbox, StartScan, ScanStep, SkipBadFile, QueryFails,
           Announce, AnnounceFails, CrashScan
<1> QED BY <1>1, <1>2, PTL DEF InboxSpec, SyncSpec

-----------------------------------------------------------------------------

IsReported(f, reports, told) ==
    IF f \in File THEN \E t \in Token : <<f, t>> \in reports /\ <<t, f>> \in told
                  ELSE <<f, "error">> \in reports

PreviewOf(t, f) == t \in issued /\ (staged[t] # None => staged[t].file = f)

TypesOK == /\ inbox \subseteq File \cup BadFile
           /\ files \in Seq(File \cup BadFile)
           /\ at \in Nat \ {0}
           /\ fresh \in Token \cup {None}

(* While a token waits for its announcement it is the one reported for the *)
(* file that the scan has come to.                                         *)
FreshOK == fresh # None =>
    /\ Scanning /\ files[at] \in File
    /\ <<files[at], fresh>> \in out
    /\ PreviewOf(fresh, files[at])

(* Unless something has failed, the files passed are reported.             *)
PassedOK == ~broke => /\ ~aborted
                      /\ \A i \in DOMAIN files :
                            i < at => IsReported(files[i], out, announced)

ScanInv == TypesOK /\ StagedOK /\ AnnouncedPreviews /\ FreshOK /\ PassedOK

LEMMA ScanInit == InboxInit => ScanInv
<1> SUFFICES ASSUME InboxInit PROVE ScanInv
  OBVIOUS
<1>1. files = <<>> /\ at = 1 /\ DOMAIN files = {}
  BY DEF InboxInit
<1> QED BY <1>1 DEF InboxInit, SyncInit, ScanInv, TypesOK, StagedOK, AnnouncedPreviews,
           FreshOK, PassedOK

LEMMA SortedIsSeq ==
    ASSUME NEW dir \in SUBSET (File \cup BadFile), NEW fs \in Sorted(dir)
    PROVE  fs \in Seq(File \cup BadFile)
<1>1. IsFiniteSet(dir)
  BY InboxAssumption, FS_Subset
<1>2. Cardinality(dir) \in Nat
  BY <1>1, FS_CardinalityType
<1>3. fs \in [1..Cardinality(dir) -> File \cup BadFile]
  BY DEF Sorted
<1> QED BY <1>2, <1>3

(* What the steps of others do to the staged diffs: they go away.          *)
LEMMA ApplyDropsTokens ==
    ASSUME StagedOK, NEW s \in Session, Apply(s)
    PROVE  /\ issued' = issued /\ StagedOK'
           /\ \A t \in Token : staged'[t] = staged[t] \/ staged'[t] = None
<1>1. /\ issued' = issued
      /\ staged' = staged \/ \E t : staged' = [staged EXCEPT ![t] = None]
  BY DEF Apply, BeginApply, UnknownToken, LoadExisting, CommitApply, FailApply,
     Finish, ClearDiff, InvalidateAfterApply, NotifyAdded, NotifyRemoved, syncVars
<1> QED BY <1>1 DEF StagedOK

LEMMA ExpiryDropsTokens ==
    ASSUME StagedOK, NEW q \in Token, ExpireToken(q)
    PROVE  /\ issued' = issued /\ StagedOK'
           /\ \A t \in Token : staged'[t] = staged[t] \/ staged'[t] = None
BY DEF ExpireToken, StagedOK

(* Nothing that a scan has said becomes wrong when staged diffs go away.   *)
LEMMA DroppedTokens ==
    ASSUME ScanInv, UNCHANGED inboxVars, issued' = issued, StagedOK',
           \A t \in Token : staged'[t] = staged[t] \/ staged'[t] = None
    PROVE  ScanInv'
<1>1. TypesOK' /\ PassedOK'
  BY DEF ScanInv, TypesOK, PassedOK, inboxVars, scanVars
<1>2. \A t \in Token : staged'[t] # None => staged'[t] = staged[t]
  OBVIOUS
<1>3. issued \subseteq Token
  BY DEF ScanInv, StagedOK
<1>4. AnnouncedPreviews'
  BY <1>2, <1>3 DEF ScanInv, AnnouncedPreviews, inboxVars, scanVars
<1>5. FreshOK'
  BY <1>2 DEF ScanInv, TypesOK, FreshOK, PreviewOf, Scanning, inboxVars, scanVars
<1> QED BY <1>1, <1>4, <1>5 DEF ScanInv

(* The scan passes a file, with what it has reported about it.             *)
LEMMA PassFile ==
    ASSUME ScanInv, UNCHANGED <<inbox, files>>, UNCHANGED vars, Scanning,
           at' = at + 1, fresh' = None, out \subseteq out', AnnouncedPreviews',
           announced \subseteq announced',
           ~broke' => ~broke /\ ~aborted' /\ IsReported(files[at], out', announced')
    PROVE  ScanInv'
<1>1. TypesOK' /\ StagedOK' /\ FreshOK'
  BY DEF ScanInv, TypesOK, StagedOK, FreshOK, vars, syncVars
<1>2. \A f : IsReported(f, out, announced) => IsReported(f, out', announced')
  BY DEF IsReported
<1>3. ASSUME ~broke', NEW i \in DOMAIN files, i < at'
      PROVE  IsReported(files[i], out', announced')
  <2>1. i \in Nat /\ at \in Nat
    BY DEF ScanInv, TypesOK
  <2>2. CASE i < at
    BY <1>2, <1>3, <2>2 DEF ScanInv, PassedOK
  <2>3. CASE i = at
    BY <1>3, <2>3
  <2> QED BY <1>3, <2>1, <2>2, <2>3
<1>4. PassedOK'
  BY <1>3 DEF PassedOK, IsReported
<1> QED BY <1>1, <1>4 DEF ScanInv

LEMMA StageFileInv ==
    ASSUME ScanInv, NEW t \in Token, StageFile(t) PROVE ScanInv'
<1>1. /\ TypesOK /\ StagedOK /\ AnnouncedPreviews /\ PassedOK
      /\ Scanning /\ files[at] \in File /\ fresh' = t /\ t # None
      /\ out' = out \cup {<<files[at], t>>}
      /\ UNCHANGED <<inbox, files, at, aborted, announced, broke>>
  BY NoneAssumption DEF ScanInv, StageFile
<1>2. t \notin issued /\ issued' = issued \cup {t}
  BY DEF StageFile, Upload
<1>3. PICK byKey \in ByKey(cars) :
         staged' = [staged EXCEPT ![t] = [file |-> files[at],
                                          diff |-> Diff(Rows(files[at]), cars, byKey)]]
  BY DEF StageFile, Upload
<1>4. staged'[t].file = files[at] /\ \A q \in Token \ {t} : staged'[q] = staged[q]
  BY <1>1, <1>3 DEF StagedOK
<1>5. StagedOK'
  BY <1>1, <1>2, <1>3, <1>4 DEF StagedOK
<1>6. TypesOK' /\ FreshOK'
  BY <1>1, <1>2, <1>4 DEF TypesOK, FreshOK, PreviewOf, Scanning
<1>7. AnnouncedPreviews'
  BY <1>1, <1>2, <1>4 DEF AnnouncedPreviews, StagedOK
<1>8. PassedOK'
  BY <1>1 DEF PassedOK, IsReported
<1> QED BY <1>5, <1>6, <1>7, <1>8 DEF ScanInv

LEMMA ScanNextInv ==
    ASSUME ScanInv, [InboxNext]_allVars PROVE ScanInv'
<1>1. CASE UNCHANGED allVars
  BY <1>1 DEF allVars, vars, syncVars, inboxVars, scanVars, ScanInv, TypesOK, StagedOK,
     AnnouncedPreviews, FreshOK, PassedOK, PreviewOf, Scanning
<1>2. ASSUME NEW f \in File \cup BadFile, ChangeInbox(f) PROVE ScanInv'
  <2>1. UNCHANGED <<staged, issued, files, at, fresh, aborted, out, announced, broke>>
    BY <1>2 DEF ChangeInbox, vars, syncVars, scanVars
  <2>2. inbox' \subseteq File \cup BadFile
    BY <1>2 DEF ChangeInbox, ScanInv, TypesOK
  <2> QED BY <2>1, <2>2 DEF ScanInv, TypesOK, StagedOK, AnnouncedPreviews, FreshOK,
             PassedOK, PreviewOf, Scanning
<1>3. CASE StartScan
  <2>1. files' \in Seq(File \cup BadFile)
    BY <1>3, SortedIsSeq DEF StartScan, ScanInv, TypesOK
  <2>2. /\ UNCHANGED <<staged, issued, inbox, fresh, announced>> /\ ~Scanning
        /\ at' = 1 /\ aborted' = FALSE
    BY <1>3 DEF StartScan, vars, syncVars
  <2>3. \A i \in DOMAIN files' : ~(i < 1)
    BY <2>1
  <2>4. TypesOK' /\ FreshOK' /\ PassedOK'
    BY <2>1, <2>2, <2>3 DEF ScanInv, TypesOK, FreshOK, PassedOK
  <2> QED BY <2>2, <2>4 DEF ScanInv, StagedOK, AnnouncedPreviews
<1>4. ASSUME NEW t \in Token, StageFile(t) PROVE ScanInv'
  BY <1>4, StageFileInv
<1>5. CASE SkipBadFile
  <2>1. /\ Scanning /\ Fail /\ files[at] \notin File
        /\ UNCHANGED <<vars, inbox, files, aborted, announced, broke>>
    BY <1>5, InboxAssumption DEF SkipBadFile
  <2>2. AnnouncedPreviews'
    BY <2>1 DEF ScanInv, AnnouncedPreviews, vars, syncVars
  <2>3. <<files[at], "error">> \in out' /\ out \subseteq out' /\ at' = at + 1 /\ fresh' = None
    BY <2>1 DEF Fail
  <2> QED BY <2>1, <2>2, <2>3, PassFile DEF IsReported, ScanInv, PassedOK
<1>6. CASE QueryFails \/ AnnounceFails
  <2>1. /\ Scanning /\ Fail /\ broke'
        /\ UNCHANGED <<vars, inbox, files, announced>>
    BY <1>6 DEF QueryFails, AnnounceFails, ScanInv, FreshOK
  <2>2. AnnouncedPreviews'
    BY <2>1 DEF ScanInv, AnnouncedPreviews, vars, syncVars
  <2> QED BY <2>1, <2>2, PassFile DEF Fail
<1>7. CASE Announce
  <2>1. /\ fresh # None /\ announced' = announced \cup {<<fresh, files[at]>>}
        /\ fresh' = None /\ at' = at + 1
        /\ UNCHANGED <<vars, inbox, files, aborted, out, broke>>
    BY <1>7 DEF Announce
  <2>2. /\ Scanning /\ files[at] \in File /\ <<files[at], fresh>> \in out
        /\ PreviewOf(fresh, files[at]) /\ fresh \in Token
    BY <2>1 DEF ScanInv, FreshOK, TypesOK
  <2>3. AnnouncedPreviews'
    BY <2>1, <2>2 DEF ScanInv, AnnouncedPreviews, PreviewOf, vars, syncVars
  <2>4. IsReported(files[at], out', announced')
    BY <2>1, <2>2 DEF IsReported
  <2> QED BY <2>1, <2>2, <2>3, <2>4, PassFile DEF ScanInv, PassedOK
<1>8. CASE CrashScan
  <2>1. /\ at' = Len(files) + 1 /\ fresh' = None /\ broke'
        /\ UNCHANGED <<staged, issued, inbox, files, announced>>
    BY <1>8 DEF CrashScan, vars, syncVars
  <2> QED BY <2>1 DEF ScanInv, TypesOK, StagedOK, AnnouncedPreviews, FreshOK, PassedOK
<1>9. ASSUME NEW t \in Token, ExpireToken(t), UNCHANGED inboxVars PROVE ScanInv'
  BY <1>9, ExpiryDropsTokens, DroppedTokens DEF ScanInv
<1>10. ASSUME NEW s \in Session, Apply(s), UNCHANGED inboxVars PROVE ScanInv'
  BY <1>10, ApplyDropsTokens, DroppedTokens DEF ScanInv
<1> QED BY <1>1, <1>2, <1>3, <1>4, <1>5, <1>6, <1>7, <1>8, <1>9, <1>10
        DEF InboxNext, ScanStep

THEOREM InboxSpecInv == InboxSpec => []ScanInv
BY ScanInit, ScanNextInv, PTL DEF InboxSpec

(* What a notification of the scan links to is the preview of the file it  *)
(* names, as long as there is one, whoever applies or lets it expire       *)
(* (AnnouncedPreviews).                                                    *)
THEOREM SpecAnnouncedPreviews == InboxSpec => []AnnouncedPreviews
<1>1. ScanInv => AnnouncedPreviews
  BY DEF ScanInv
<1> QED BY InboxSpecInv, <1>1, PTL

(* However many unreadable files lie in the inbox, a scan that meets no    *)
(* other failure stages and announces every readable one                   *)
(* (BadFilesHarmNobody).                                                   *)
THEOREM SpecBadFiles == InboxSpec => []BadFilesHarmNobody
<1>1. ScanInv => BadFilesHarmNobody
  <2> SUFFICES ASSUME ScanInv, ~Scanning, ~broke, NEW i \in DOMAIN files
               PROVE  IsReported(files[i], out, announced)
    BY DEF BadFilesHarmNobody, IsReported
  <2>1. files \in Seq(File \cup BadFile) /\ at \in Nat
    BY DEF ScanInv, TypesOK
  <2>2. i < at
    BY <2>1 DEF Scanning
  <2> QED BY <2>2 DEF ScanInv, PassedOK
<1> QED BY InboxSpecInv, <1>1, PTL

(* Beside the scan, too, no notification reports an apply that was not     *)
(* committed (SentAreLogged).                                              *)
THEOREM InboxSentLogged == InboxSpec => []SentAreLogged
BY InboxImplementsSync, SyncSpecSentLogged

(* Beside the scan, too, an apply that nothing overtakes makes the cars    *)
(* the mirror of its file, any apply touches only Excel cars it has read,  *)
(* and every change is in the audit log (MirrorAfterApply,                 *)
(* ApplyOnlyUpdatesOrArchives, AuditCoversCommit).                         *)
THEOREM InboxSafety ==
    InboxSpec => MirrorAfterApply /\ ApplyOnlyUpdatesOrArchives /\ AuditCoversCommit
BY InboxImplementsSync, SyncSpecMirrors, SyncSpecApplyOnly, SyncSpecAudit

(* And with one operator and no crash each apply still is one step of      *)
(* AtomicSync, whatever files the scan stages meanwhile (AppliesAtOnce).   *)
THEOREM InboxAppliesAtOnce ==
    ASSUME ~MayCrash, \A a, b \in Session : a = b
    PROVE  InboxSpec => AppliesAtOnce
BY InboxImplementsSync, SyncSpecAppliesAtOnce

=============================================================================
