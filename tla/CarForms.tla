------------------------------ MODULE CarForms ------------------------------
(***************************************************************************)
(* The car form of the admin panel, beside the requests of CarService.     *)
(* A browser tab holds what a GET has rendered and what the operator has   *)
(* typed since; its POST loads the car again and sends every field of the  *)
(* form through update_car, the untouched ones included.  A tab stays open *)
(* after a POST: a second click, or the back button, posts it again.       *)
(***************************************************************************)
EXTENDS CarService

CONSTANTS
    Tab,        \* browser tabs
    Typed,      \* <<field, value>>: what operators type (a bound)
    EarlyYears, \* the years before 1900
    LF, CRLF,   \* a description of several lines, and what a textarea makes of it
    BadPrice    \* a price that Decimal or CarUpdate does not take

FormColumns == Columns \cap {"price", "mileage", "gearbox", "fuel_type",
                             "color", "location", "description"}
FormField == FormColumns \cup NamePart \cup {"status"}

(* What an input of the form may hold.                                     *)
Input(f) == CASE f \in NamePart -> Word
              [] f = "status" -> Status
              [] f = "price" -> Value \cup {None, BadPrice}
              [] OTHER -> Value \cup {None}

ASSUME FormAssumption ==
    /\ EarlyYears \subseteq Word
    /\ CRLF \in Value
    /\ Blank \notin Word \cup Status
    /\ BadPrice # Unset
    /\ \A t \in Typed : t[1] \in FormField /\ t[2] \in Input(t[1])

VARIABLES
    tab,    \* what each tab shows: None, or the car, as it was read, and the inputs
    posted  \* the form that the request of each session carries

formVars == <<tab, posted>>
vars == <<carVars, formVars>>

FormInit == /\ Init
            /\ tab = [b \in Tab |-> None]
            /\ posted = [s \in Session |-> None]

(* What becomes of a value that is rendered and posted back: an empty text *)
(* is an absent field, a mileage of 0 is not, line breaks become CRLF.     *)
Echo(f, v) == IF v = Blank /\ f # "mileage" THEN None
              ELSE IF v = LF /\ f = "description" THEN CRLF ELSE v

(* edit_car_form: the GET, of a car that is not deleted.                   *)
OpenForm(b, i) ==
    /\ i \in Ids(cars) /\ ~cars[i].deleted
    /\ tab' = [tab EXCEPT ![b] =
                  [car |-> i, read |-> cars[i],
                   input |-> [f \in FormField |-> Echo(f, Get(cars[i], f))]]]
    /\ NoCommit /\ UNCHANGED <<cacheBehind, pc, loaded, posted>>

Untouched(form) ==
    {f \in FormField : form.input[f] = Echo(f, Get(form.read, f))}

(* The operator fills one field in; one per GET is enough.                 *)
Type(b, f, v) ==
    /\ tab[b] # None
    /\ Untouched(tab[b]) = FormField
    /\ tab' = [tab EXCEPT ![b].input[f] = v]
    /\ NoCommit /\ UNCHANGED <<cacheBehind, pc, loaded, posted>>

-----------------------------------------------------------------------------
(* edit_car_submit                                                         *)

BeginPost(s, b) ==
    /\ tab[b] # None
    /\ BeginEdit(s, tab[b].car)
    /\ posted' = [posted EXCEPT ![s] = tab[b]]
    /\ UNCHANGED tab

(* Mutants: the status is that of a new car; `mileage or None`.            *)
FormPayloadAsDraft(form) ==
    [name |-> Restrict(form.input, NamePart), status |-> "draft",
     cols |-> [c \in Columns |->
                  IF c \in FormColumns THEN form.input[c] ELSE Unset]]

FormPayloadOrNone(form) ==
    [name |-> Restrict(form.input, NamePart), status |-> form.input["status"],
     cols |-> [c \in Columns |->
                  IF c \notin FormColumns THEN Unset
                  ELSE IF form.input[c] = Blank THEN None ELSE form.input[c]]]

FormPayload(form) ==
    [name |-> Restrict(form.input, NamePart), status |-> form.input["status"],
     cols |-> [c \in Columns |->
                  IF c \in FormColumns THEN form.input[c] ELSE Unset]]

(* What Form(...), Decimal() and the validation of CarUpdate let pass.     *)
Valid(form) == /\ form.input["price"] \notin {None, BadPrice}
               /\ form.input["year"] \notin EarlyYears

SaveForm(s) ==
    /\ posted[s] # None /\ Valid(posted[s])
    /\ UpdateCar(s, posted[s].car, FormPayload(posted[s]))
    /\ posted' = [posted EXCEPT ![s] = None]
    /\ UNCHANGED tab

(* 422 or 400, or a ValidationError inside the handler: 500.               *)
RefuseForm(s) ==
    /\ posted[s] # None /\ ~Valid(posted[s])
    /\ posted' = [posted EXCEPT ![s] = None]
    /\ Forget(s) /\ Goto(s, "idle")
    /\ NoCommit /\ UNCHANGED <<cacheBehind, tab>>

(* The GET or the POST of a car that is gone: 404.                         *)
FormNotFound(s, b) ==
    /\ tab[b] # None
    /\ NotFound(s, tab[b].car)
    /\ UNCHANGED formVars

CrashInForm(s) ==
    /\ posted[s] # None
    /\ CrashInEdit(s)
    /\ posted' = [posted EXCEPT ![s] = None]
    /\ UNCHANGED tab

(* new_car_submit: the form without a car.                                 *)
NewCar(input) ==
    [eid |-> None, name |-> input.name,
     cols |-> [c \in Columns |->
                  IF c \in FormColumns THEN Echo(c, input.cols[c]) ELSE None],
     status |-> input.status, source |-> "manual", deleted |-> FALSE]

PostNew(s, i, input) ==
    /\ CreateCar(s, i, NewCar(input))
    /\ UNCHANGED formVars

(* The requests that carry no form, and the end of one that did.           *)
OtherEdit(s) == posted[s] = None /\ Edit(s) /\ UNCHANGED formVars

FormNext ==
    \/ \E b \in Tab, i \in CarId : OpenForm(b, i)
    \/ \E b \in Tab, t \in Typed : Type(b, t[1], t[2])
    \/ \E s \in Session, b \in Tab : BeginPost(s, b) \/ FormNotFound(s, b)
    \/ \E s \in Session : SaveForm(s) \/ RefuseForm(s) \/ CrashInForm(s) \/ OtherEdit(s)
    \/ \E s \in Session, i \in CarId, input \in CreatePayloads : PostNew(s, i, input)

FormSpec == FormInit /\ [][FormNext]_vars

-----------------------------------------------------------------------------

(* A step in which the form of session s is written.                       *)
Saves(s) == posted[s] # None /\ pc'[s] = "edited"

(* Every field is posted, and the last writer wins.  What an operator has  *)
(* not touched is nevertheless changed by a save only if somebody else had *)
(* changed it since the form was opened, apart from empty texts and line   *)
(* breaks: a save never resets a field by itself (cars.py:152-197).        *)
OnlyStaleFormsRevert ==
    [][\A s \in Session : Saves(s) =>
        LET form == posted[s]
            was(f) == Get(cars[form.car], f)
            now(f) == Get(cars'[form.car], f)
        IN \A f \in Untouched(form) :
              now(f) # was(f) => \/ was(f) # Get(form.read, f)
                                 \/ now(f) = Echo(f, was(f))]_vars

(* A save that is not overtaken between its own read and its commit leaves *)
(* the car as the form shows it; whatever overtakes it, each field ends up *)
(* as posted or as it was, and what the form does not show stays, the      *)
(* deletion of the car included (cars.py:173-194, car_service.py:93-106).  *)
SavedAsShown ==
    [][\A s \in Session : Saves(s) =>
        LET form == posted[s]
            i == form.car
            hidden(car) == [car EXCEPT !.name = "", !.status = "draft",
                                       !.cols = Restrict(@, Columns \ FormColumns)]
        IN /\ \A f \in FormField :
                 Get(cars'[i], f) \in
                    {form.input[f]} \cup (IF cars[i] = loaded[s][i] THEN {}
                                          ELSE {Get(cars[i], f)})
           /\ hidden(cars'[i]) = hidden(cars[i])]_vars

=============================================================================
