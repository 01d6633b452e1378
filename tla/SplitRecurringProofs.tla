------------------------- MODULE SplitRecurringProofs -------------------------
(***************************************************************************)
(* The recurring expenses of SplitRecurring for every calendar, every set  *)
(* of members and any number of workers and crashes: the rows, the copies  *)
(* and the loop counters keep their types, no occurrence ever lacks its    *)
(* shares, and a deleted row is only touched by who was at work on it when *)
(* it was deleted (Leftovers).                                             *)
(*                                                                         *)
(* The argument: whoever works on a copy found a row, a row never goes     *)
(* without its template (Backed), and the template names its payer among   *)
(* the participants, so that what an occurrence is shared by is not empty. *)
(***************************************************************************)
EXTENDS SplitRecurring, TLAPS

(* The entries of proc. *)
Requests ==
  [at : {"idle", "loaded", "backfill", "month", "answered"},
   op : {None, "cron", "save", "generate", "destroy", "enable", "disable"},
   copy : Rows \cup {None},
   month : 0..Len(Length) + 1, last : 0..Len(Length)]

(* A row has its template, and a request that is served has both. *)
Backed ==
  /\ rec # None => template \in Templates
  /\ \A p \in Processes :
       proc[p].at # "idle" =>
         rec \in Rows /\ proc[p].copy \in Rows /\ template \in Templates

(* The inductive invariant. *)
IInv == Typed /\ Backed /\ NoOccurrenceWithoutShares

-----------------------------------------------------------------------------
(* Enabling, disabling and deleting keep a row well-formed. *)
LEMMA SwitchedRow ==
  ASSUME NEW r \in Rows, NEW status \in {"ACTIVE", "DISABLED", "DELETED"}
  PROVE  Switched(r, status) \in Rows
<1>1. (status = "ACTIVE") \in BOOLEAN /\ (status = "DELETED" => ~(status = "ACTIVE"))
  OBVIOUS
<1> QED BY <1>1 DEF Switched, Rows

(* So does the sweep of the expired ones. *)
LEMMA SweptRow ==
  ASSUME NEW u, rec \in Rows
  PROVE  AfterSweep(u) \in Rows
BY SwitchedRow DEF AfterSweep

(* The months of a row and of the day are months of the calendar. *)
LEMMA MonthsOfRow ==
  ASSUME RecurringAssumption, NEW r \in Rows, today \in Calendar
  PROVE  /\ Len(Length) \in Nat
         /\ r.start[1] \in 1..Len(Length)
         /\ LastMonth(r) \in 1..Len(Length)
<1>1. Len(Length) \in Nat
  BY DEF RecurringAssumption
<1>2. \A t \in Calendar : t[1] \in 1..Len(Length)
  BY DEF Calendar, Dates, Months
<1>3. r.start \in Calendar /\ r.end \in Calendar \cup {None}
  BY DEF RecurringAssumption, Rows
<1> QED BY <1>1, <1>2, <1>3 DEF LastMonth

(* Who shares an occurrence, if its participants resolve: the payer of the *)
(* template at least. *)
LEMMA SharersExist ==
  ASSUME NEW r \in Rows, template \in Templates, active \subseteq Members, Resolves(r)
  PROVE  Sharers(r) \in SUBSET Members /\ Sharers(r) # {}
BY DEF Sharers, Resolves, Templates

(* A step of one process keeps the invariant if it leaves the others with  *)
(* a row and a template, and generates nothing. *)
LEMMA RequestIsSound ==
  ASSUME IInv, NEW p \in Processes,
         proc' \in [Processes -> Requests],
         \A x \in Processes \ {p} : proc'[x] = proc[x],
         rec' \in Rows \cup {None}, rec \in Rows => rec' \in Rows,
         template' \in Templates \cup {None},
         template \in Templates => template' \in Templates,
         rec' # None => template' \in Templates,
         proc'[p].at # "idle" =>
           rec' \in Rows /\ proc'[p].copy \in Rows /\ template' \in Templates,
         UNCHANGED <<occ, active, today>>, crashes' \in 0..MaxCrashes
  PROVE  IInv'
<1>1. Typed'
  BY DEF IInv, Typed, Requests
<1>2. Backed'
  BY DEF IInv, Backed
<1>3. NoOccurrenceWithoutShares'
  BY DEF IInv, NoOccurrenceWithoutShares
<1> QED BY <1>1, <1>2, <1>3 DEF IInv

(* Sending a process to the next step of its request. *)
LEMMA GotoIsTyped ==
  ASSUME RecurringAssumption, proc \in [Processes -> Requests], NEW p \in Processes,
         NEW at \in {"idle", "loaded", "backfill", "month", "answered"},
         NEW op \in {None, "cron", "save", "generate", "destroy", "enable", "disable"},
         NEW copy \in Rows \cup {None},
         Goto(p, at, op, copy)
  PROVE  /\ proc' \in [Processes -> Requests]
         /\ \A x \in Processes \ {p} : proc'[x] = proc[x]
         /\ proc'[p].copy = copy
<1>1. Len(Length) \in Nat
  BY DEF RecurringAssumption
<1>2. [at |-> at, op |-> op, copy |-> copy, month |-> 0, last |-> 0] \in Requests
  BY <1>1 DEF Requests
<1> QED BY <1>2 DEF Goto

-----------------------------------------------------------------------------
(* The requests that create a row and those that load it. *)
LEMMA RequestKeepsIInv ==
  ASSUME RecurringAssumption, IInv, NEW p \in Workers, Create(p) \/ Load(p) \/ Generate(p)
  PROVE  IInv'
<1>1. /\ proc \in [Processes -> Requests] /\ p \in Processes /\ rec \in Rows \cup {None}
      /\ template \in Templates \cup {None} /\ crashes \in 0..MaxCrashes
      /\ rec # None => template \in Templates
  BY DEF IInv, Typed, Requests, Processes, Backed
<1>2. CASE Create(p)
  <2>1. PICK r \in Rows : /\ rec' = r /\ template' \in Templates
                          /\ Goto(p, "backfill", "save", r)
    BY <1>2 DEF Create, ValidRows, ValidTemplates
  <2>2. /\ proc' \in [Processes -> Requests] /\ proc'[p].copy = r
        /\ \A x \in Processes \ {p} : proc'[x] = proc[x]
    BY <1>1, <2>1, GotoIsTyped
  <2> QED BY <1>1, <1>2, <2>1, <2>2, RequestIsSound DEF Create
<1>3. CASE Load(p)
  <2>1. rec' \in Rows /\ template \in Templates
    BY <1>1, <1>3, SweptRow DEF Load
  <2>2. PICK op \in {"save", "destroy", "enable", "disable"} :
          Goto(p, "loaded", op, rec')
    BY <1>3 DEF Load
  <2>3. /\ proc' \in [Processes -> Requests] /\ proc'[p].copy = rec'
        /\ \A x \in Processes \ {p} : proc'[x] = proc[x]
    BY <1>1, <2>1, <2>2, GotoIsTyped
  <2> QED BY <1>1, <1>3, <2>1, <2>3, RequestIsSound DEF Load
<1>4. CASE Generate(p)
  <2>1. rec' \in Rows /\ template \in Templates
    BY <1>1, <1>4, SweptRow DEF Generate
  <2>2. PICK m \in 1..Len(Length) :
          \/ proc' = [proc EXCEPT ![p] =
               [at |-> "month", op |-> "generate", copy |-> rec', month |-> m, last |-> m]]
          \/ UNCHANGED proc
    BY <1>4 DEF Generate, Months
  <2>3. Len(Length) \in Nat
    BY DEF RecurringAssumption
  <2>4. [at |-> "month", op |-> "generate", copy |-> rec', month |-> m, last |-> m]
          \in Requests
    BY <2>1, <2>3 DEF Requests
  <2>5. /\ proc' \in [Processes -> Requests]
        /\ \A x \in Processes \ {p} : proc'[x] = proc[x]
        /\ proc'[p].copy = rec' \/ proc' = proc
    BY <1>1, <2>2, <2>4
  <2>6. proc'[p].at # "idle" => proc'[p].copy \in Rows
    BY <1>1, <2>1, <2>5 DEF IInv, Backed
  <2> QED BY <1>1, <1>4, <2>1, <2>5, <2>6, RequestIsSound DEF Generate
<1> QED BY <1>2, <1>3, <1>4

(* The writes of a request that has loaded the row. *)
LEMMA WriteKeepsIInv ==
  ASSUME RecurringAssumption, IInv, NEW p \in Processes,
         Save(p) \/ Refuse(p) \/ Destroy(p) \/ Enable(p) \/ Disable(p)
  PROVE  IInv'
<1>1. /\ proc \in [Processes -> Requests] /\ crashes \in 0..MaxCrashes
      /\ rec \in Rows /\ proc[p].copy \in Rows /\ template \in Templates
      /\ UNCHANGED <<occ, active, today, crashes>>
  BY DEF IInv, Typed, Requests, Backed, Save, Refuse, Destroy, Enable, Disable
<1>2. PICK at \in {"backfill", "answered"}, op \in {"save", "destroy", "enable", "disable"},
           copy \in Rows :
        rec' \in Rows /\ template' \in Templates /\ Goto(p, at, op, copy)
  <2>1. CASE Save(p)
    BY <1>1, <2>1 DEF Save, ValidRows, ValidTemplates
  <2>2. CASE Refuse(p)
    BY <1>1, <2>2 DEF Refuse
  <2>3. CASE Destroy(p)
    BY <1>1, <2>3, SwitchedRow DEF Destroy
  <2>4. CASE Enable(p)
    BY <1>1, <2>4, SwitchedRow DEF Enable
  <2>5. CASE Disable(p)
    BY <1>1, <2>5, SwitchedRow DEF Disable
  <2> QED BY <2>1, <2>2, <2>3, <2>4, <2>5
<1>3. /\ proc' \in [Processes -> Requests] /\ proc'[p].copy = copy
      /\ \A x \in Processes \ {p} : proc'[x] = proc[x]
  BY <1>1, <1>2, GotoIsTyped
<1> QED BY <1>1, <1>2, <1>3, RequestIsSound

(* The timer and the beginning of a backfill. *)
LEMMA BackfillKeepsIInv ==
  ASSUME RecurringAssumption, IInv, NEW p \in Processes,
         Backfill(p) \/ (p = Cron /\ CronFetch)
  PROVE  IInv'
<1>1. /\ proc \in [Processes -> Requests] /\ crashes \in 0..MaxCrashes
      /\ rec \in Rows /\ template \in Templates /\ today \in Calendar
      /\ UNCHANGED <<template, occ, active, today, crashes>>
  BY DEF IInv, Typed, Requests, Backed, Backfill, CronFetch
<1>2. CASE p = Cron /\ CronFetch
  <2>1. Goto(p, "backfill", "cron", rec) /\ UNCHANGED rec
    BY <1>2 DEF CronFetch
  <2>2. /\ proc' \in [Processes -> Requests] /\ proc'[p].copy = rec
        /\ \A x \in Processes \ {p} : proc'[x] = proc[x]
    BY <1>1, <2>1, GotoIsTyped
  <2> QED BY <1>1, <2>1, <2>2, RequestIsSound
<1>3. CASE Backfill(p)
  <2> DEFINE copy == proc[p].copy
  <2>1. copy \in Rows /\ proc[p] \in Requests
    BY <1>1, <1>3 DEF IInv, Backed, Backfill
  <2>2. CASE \E c \in Rows : Goto(p, "answered", proc[p].op, c) /\ rec' \in Rows
    <3>1. PICK c \in Rows : Goto(p, "answered", proc[p].op, c) /\ rec' \in Rows
      BY <2>2
    <3>2. proc[p].op \in {None, "cron", "save", "generate", "destroy", "enable", "disable"}
      BY <2>1 DEF Requests
    <3>3. /\ proc' \in [Processes -> Requests] /\ proc'[p].copy = c
          /\ \A x \in Processes \ {p} : proc'[x] = proc[x]
      BY <1>1, <3>1, <3>2, GotoIsTyped
    <3> QED BY <1>1, <3>1, <3>3, RequestIsSound
  <2>3. CASE /\ proc' = [proc EXCEPT ![p].at = "month", ![p].month = copy.start[1],
                                     ![p].last = LastMonth(copy)]
             /\ UNCHANGED rec
    <3>1. /\ Len(Length) \in Nat
          /\ copy.start[1] \in 1..Len(Length) /\ LastMonth(copy) \in 1..Len(Length)
      BY <1>1, <2>1, MonthsOfRow
    <3> DEFINE q == [at |-> "month", op |-> proc[p].op, copy |-> copy,
                     month |-> copy.start[1], last |-> LastMonth(copy)]
    <3>2. q \in Requests
      BY <2>1, <3>1 DEF Requests
    <3>3. proc'[p] = q
      BY <1>1, <2>1, <2>3 DEF Requests
    <3>4. /\ proc' \in [Processes -> Requests] /\ proc'[p].copy = copy
          /\ \A x \in Processes \ {p} : proc'[x] = proc[x]
      BY <1>1, <2>3, <3>2, <3>3
    <3> QED BY <1>1, <2>1, <2>3, <3>4, RequestIsSound
  <2> QED BY <1>1, <1>3, <2>1, <2>2, <2>3, SwitchedRow DEF Backfill
<1> QED BY <1>2, <1>3

(* The loop over the months generates only shared occurrences. *)
LEMMA MonthKeepsIInv ==
  ASSUME RecurringAssumption, IInv, NEW p \in Processes, Month(p)
  PROVE  IInv'
<1> DEFINE copy == proc[p].copy
           t == OccurrenceDate(copy, proc[p].month)
<1>1. /\ proc \in [Processes -> Requests] /\ copy \in Rows
      /\ template \in Templates /\ active \subseteq Members
      /\ occ \in [Calendar -> (SUBSET Members) \cup {None}]
      /\ UNCHANGED <<rec, template, active, today, crashes>>
  BY DEF IInv, Typed, Requests, Backed, Month
<1>2. Len(Length) \in Nat
  BY DEF RecurringAssumption
<1>3. proc[p].month \in 0..Len(Length)
  <2>1. proc[p] \in Requests /\ proc[p].month <= proc[p].last
    BY <1>1 DEF Month
  <2> QED BY <1>2, <2>1 DEF Requests
<1>4. /\ proc' \in [Processes -> Requests]
      /\ \A x \in Processes : proc'[x].at = proc[x].at /\ proc'[x].copy = proc[x].copy
  BY <1>1, <1>2, <1>3 DEF Month, Requests
<1>5. occ' = occ \/ (Resolves(copy) /\ occ' = [occ EXCEPT ![t] = Sharers(copy)])
  BY DEF Month, WithOccurrence
<1>6. /\ occ' \in [Calendar -> (SUBSET Members) \cup {None}]
      /\ \A s \in Calendar : occ'[s] = occ[s] \/ occ'[s] # {}
  BY <1>1, <1>5, SharersExist
<1>7. Typed'
  BY <1>1, <1>4, <1>6 DEF IInv, Typed, Requests
<1>8. Backed'
  BY <1>1, <1>4 DEF IInv, Backed
<1>9. NoOccurrenceWithoutShares'
  BY <1>6 DEF IInv, NoOccurrenceWithoutShares
<1> QED BY <1>7, <1>8, <1>9 DEF IInv

(* The end of a request, and the death of a process. *)
LEMMA EndKeepsIInv ==
  ASSUME RecurringAssumption, IInv, NEW p \in Processes,
         LoopEnds(p) \/ Answer(p) \/ Crash(p)
  PROVE  IInv'
<1>1. /\ proc \in [Processes -> Requests] /\ proc[p] \in Requests
      /\ crashes \in 0..MaxCrashes /\ MaxCrashes \in Nat /\ Len(Length) \in Nat
      /\ rec \in Rows /\ proc[p].copy \in Rows /\ template \in Templates
      /\ UNCHANGED <<rec, template, occ, active, today>>
  BY DEF RecurringAssumption, IInv, Typed, Requests, Backed, LoopEnds, Answer, Crash
<1>2. crashes' \in 0..MaxCrashes
  BY <1>1 DEF LoopEnds, Answer, Crash
<1>3. Idle \in Requests /\ Idle.at = "idle"
  BY <1>1 DEF Idle, Requests
<1>4. /\ proc' \in [Processes -> Requests]
      /\ \A x \in Processes \ {p} : proc'[x] = proc[x]
      /\ proc'[p].at = "idle" \/ proc'[p].copy = proc[p].copy
  <2>1. CASE LoopEnds(p)
    BY <1>1, <2>1 DEF LoopEnds, Requests
  <2>2. CASE Answer(p) \/ Crash(p)
    BY <1>1, <1>3, <2>2 DEF Answer, Crash
  <2> QED BY <2>1, <2>2
<1> QED BY <1>1, <1>2, <1>4, RequestIsSound

(* The group, the generated expenses and the calendar. *)
LEMMA EnvironmentKeepsIInv ==
  ASSUME IInv, NEW p \in Processes,
         DeleteOccurrence(p) \/ AddMember(p) \/ RemoveMember(p) \/ Midnight,
         None # {}
  PROVE  IInv'
<1>1. UNCHANGED <<rec, template, proc, crashes>>
  BY DEF DeleteOccurrence, AddMember, RemoveMember, Midnight
<1>2. active' \subseteq Members /\ today' \in Calendar
  BY DEF IInv, Typed, DeleteOccurrence, AddMember, RemoveMember, Midnight
<1>3. /\ occ' \in [Calendar -> (SUBSET Members) \cup {None}]
      /\ \A s \in Calendar : occ'[s] = occ[s] \/ occ'[s] = None
  <2>1. occ \in [Calendar -> (SUBSET Members) \cup {None}]
    BY DEF IInv, Typed
  <2>2. CASE \E t \in Calendar : occ' = [occ EXCEPT ![t] = None]
    <3>1. PICK t \in Calendar : occ' = [occ EXCEPT ![t] = None]
      BY <2>2
    <3> QED BY <2>1, <3>1
  <2>3. CASE UNCHANGED occ
    BY <2>1, <2>3
  <2> QED BY <2>2, <2>3 DEF DeleteOccurrence, AddMember, RemoveMember, Midnight
<1>4. Typed'
  BY <1>1, <1>2, <1>3 DEF IInv, Typed
<1>5. Backed'
  BY <1>1 DEF IInv, Backed
<1>6. NoOccurrenceWithoutShares'
  BY <1>3 DEF IInv, NoOccurrenceWithoutShares
<1> QED BY <1>4, <1>5, <1>6 DEF IInv

-----------------------------------------------------------------------------
(* The invariant is inductive. *)
LEMMA SpecSound ==
  ASSUME RecurringAssumption
  PROVE  Spec => []IInv
<1>1. Init => IInv
  <2> SUFFICES ASSUME Init PROVE IInv
    OBVIOUS
  <2>1. Len(Length) \in Nat /\ MaxCrashes \in Nat /\ None # {}
    BY DEF RecurringAssumption
  <2>2. Typed
    <3>1. Idle \in Requests
      BY <2>1 DEF Idle, Requests
    <3>2. proc \in [Processes -> Requests]
      BY <3>1 DEF Init
    <3>3. occ \in [Calendar -> (SUBSET Members) \cup {None}]
      BY DEF Init
    <3> QED BY <2>1, <3>2, <3>3 DEF Init, Typed, Requests
  <2>3. Backed
    BY DEF Init, Backed, Idle
  <2>4. NoOccurrenceWithoutShares
    BY <2>1 DEF Init, NoOccurrenceWithoutShares
  <2> QED BY <2>2, <2>3, <2>4 DEF IInv
<1>2. IInv /\ [Next]_allVars => IInv'
  <2> SUFFICES ASSUME IInv, [Next]_allVars PROVE IInv'
    OBVIOUS
  <2>1. None # {} /\ Cron \in Processes /\ Workers \subseteq Processes
    BY DEF RecurringAssumption, Processes
  <2>2. CASE \E p \in Workers : Request(p)
    BY <2>1, <2>2, RequestKeepsIInv, EnvironmentKeepsIInv DEF Request
  <2>3. CASE \E p \in Processes : Work(p) \/ Crash(p)
    BY <2>3, WriteKeepsIInv, BackfillKeepsIInv, MonthKeepsIInv, EndKeepsIInv DEF Work
  <2>4. CASE CronFetch
    BY <2>1, <2>4, BackfillKeepsIInv
  <2>5. CASE Midnight
    BY <2>1, <2>5, EnvironmentKeepsIInv
  <2>6. CASE UNCHANGED allVars
    BY <2>6 DEF allVars, vars, IInv, Typed, Backed, NoOccurrenceWithoutShares
  <2> QED BY <2>2, <2>3, <2>4, <2>5, <2>6 DEF Next, Steps
<1> QED BY <1>1, <1>2, PTL DEF Spec

(* Whoever serves a request of a row that is deleted was serving it when   *)
(* the row was deleted.                                                    *)
Leftovers ==
  /\ early \subseteq Processes
  /\ Gone(rec) => \A p \in Processes : proc[p].at # "idle" => p \in early

(* A step that is not of such a process leaves a deleted row and the       *)
(* occurrences as they are, or deletes an occurrence, and nobody begins a  *)
(* request of the row.                                                     *)
LEMMA GoneStep ==
  ASSUME RecurringAssumption, IInv, Leftovers, Gone(rec), Steps
  PROVE  /\ \A p \in Processes : proc'[p].at # "idle" => proc[p].at # "idle"
         /\ rec' # rec \/ (\E t \in Calendar : occ[t] = None /\ occ'[t] # None)
              => \E p \in early : proc'[p] # proc[p]
<1>1. /\ rec \in Rows /\ rec.status = "DELETED" /\ ~rec.on /\ rec # None
      /\ proc \in [Processes -> Requests] /\ Cron \in Processes
      /\ Workers \subseteq Processes
  BY DEF Gone, IInv, Typed, Requests, Rows, Processes
<1>2. ~Live(rec) /\ \A u : AfterSweep(u) = rec
  BY <1>1 DEF Live, AfterSweep, Expired
<1>3. CASE \E p \in Workers : Request(p)
  <2>1. PICK p \in Workers : Request(p)
    BY <1>3
  <2>2. ~Create(p) /\ ~Load(p)
    BY <1>1, <1>2 DEF Create, Load, Found
  <2>3. CASE Generate(p)
    BY <1>1, <1>2, <2>3 DEF Generate
  <2>4. CASE DeleteOccurrence(p)
    <3>1. rec' = rec /\ proc' = proc
      BY <2>4 DEF DeleteOccurrence
    <3>2. PICK s \in Calendar : occ[s] # None /\ occ' = [occ EXCEPT ![s] = None]
      BY <2>4 DEF DeleteOccurrence
    <3>3. occ \in [Calendar -> (SUBSET Members) \cup {None}]
      BY DEF IInv, Typed
    <3>4. \A t \in Calendar : occ[t] = None => occ'[t] = None
      BY <3>2, <3>3
    <3> QED BY <3>1, <3>4
  <2>5. CASE AddMember(p) \/ RemoveMember(p)
    BY <2>5 DEF AddMember, RemoveMember
  <2> QED BY <2>1, <2>2, <2>3, <2>4, <2>5 DEF Request
<1>4. CASE \E p \in Processes : Work(p) \/ Crash(p)
  <2>1. PICK p \in Processes : Work(p) \/ Crash(p)
    BY <1>4
  <2>2. /\ proc[p].at # "idle"
        /\ \A q \in Processes \ {p} : proc'[q] = proc[q]
    BY <1>1, <2>1 DEF Work, Save, Refuse, Destroy, Enable, Disable, Backfill,
                      Month, LoopEnds, Answer, Crash, Goto
  <2>3. p \in early
    BY <2>1, <2>2 DEF Leftovers
  <2>4. CASE Save(p) \/ Refuse(p) \/ Destroy(p) \/ Enable(p) \/ Disable(p)
    <3>1. proc[p].at = "loaded" /\ proc'[p].at # "loaded"
      BY <1>1, <2>4 DEF Save, Refuse, Destroy, Enable, Disable, Goto
    <3> QED BY <2>2, <2>3, <3>1
  <2>5. CASE Backfill(p)
    <3>1. proc[p].at = "backfill" /\ proc'[p].at # "backfill"
      BY <1>1, <2>5 DEF Backfill, Goto, Requests
    <3> QED BY <2>2, <2>3, <3>1
  <2>6. CASE Month(p)
    <3>1. proc[p].month \in Int /\ proc'[p].month = proc[p].month + 1
      BY <1>1, <2>1, <2>6 DEF RecurringAssumption, Month, Requests
    <3> QED BY <2>2, <2>3, <3>1
  <2>7. CASE LoopEnds(p) \/ Answer(p) \/ Crash(p)
    BY <2>2, <2>7 DEF LoopEnds, Answer, Crash
  <2> QED BY <2>1, <2>4, <2>5, <2>6, <2>7 DEF Work
<1>5. ~CronFetch
  BY <1>2 DEF CronFetch
<1>6. CASE Midnight
  BY <1>6 DEF Midnight
<1> QED BY <1>3, <1>4, <1>5, <1>6 DEF Steps

LEMMA LeftoversSound ==
  ASSUME RecurringAssumption
  PROVE  Spec => []Leftovers
<1>1. Init => Leftovers
  BY DEF Init, Leftovers, Gone
<1>2. IInv /\ Leftovers /\ [Next]_allVars => Leftovers'
  <2> SUFFICES ASSUME IInv, Leftovers, [Next]_allVars PROVE Leftovers'
    OBVIOUS
  <2>1. CASE UNCHANGED allVars
    BY <2>1 DEF allVars, vars, Leftovers, Gone
  <2>2. CASE Steps /\ Remember
    <3>1. CASE Gone(rec') /\ ~Gone(rec)
      BY <2>2, <3>1 DEF Remember, Leftovers
    <3>2. CASE Gone(rec') /\ Gone(rec)
      <4>1. \A p \in Processes : proc'[p].at # "idle" => proc[p].at # "idle"
        BY <2>2, <3>2, GoneStep
      <4>2. early' = {p \in early : proc'[p].at # "idle"}
        BY <2>2, <3>2 DEF Remember
      <4> QED BY <3>2, <4>1, <4>2 DEF Leftovers
    <3>3. CASE ~Gone(rec')
      BY <2>2, <3>3 DEF Remember, Leftovers
    <3> QED BY <3>1, <3>2, <3>3
  <2> QED BY <2>1, <2>2 DEF Next
<1> QED BY <1>1, <1>2, SpecSound, PTL DEF Spec

(* Rows, copies and loop counters keep their types: a deleted row is never *)
(* switched on, a backfill never leaves the calendar. *)
THEOREM Typing ==
  ASSUME RecurringAssumption
  PROVE  Spec => []TypeOK
<1>1. IInv /\ Leftovers => TypeOK
  BY DEF IInv, Leftovers, TypeOK
<1> QED BY <1>1, SpecSound, LeftoversSound, PTL

(* However many processes overlap, only one that was serving a request of  *)
(* the row when the row was deleted brings it back or generates for it.    *)
THEOREM OnlyLeftoversTouchIt ==
  ASSUME RecurringAssumption
  PROVE  Spec => QuietAfterDeletion
<1>1. IInv /\ Leftovers /\ [Next]_allVars =>
        [/\ Gone(rec)
         /\ rec' # rec \/ \E t \in Calendar : occ[t] = None /\ occ'[t] # None
         => \E p \in early : proc'[p] # proc[p]]_vars
  BY GoneStep DEF Next, allVars, vars
<1> QED BY <1>1, SpecSound, LeftoversSound, PTL DEF Spec, QuietAfterDeletion

(* No occurrence is ever without shares, whoever leaves the group, edits   *)
(* the row or dies while a backfill works on an older copy. *)
THEOREM OccurrencesAreShared ==
  ASSUME RecurringAssumption
  PROVE  Spec => []NoOccurrenceWithoutShares
<1>1. IInv => NoOccurrenceWithoutShares
  BY DEF IInv
<1> QED BY <1>1, SpecSound, PTL

-----------------------------------------------------------------------------
(***************************************************************************)
(* Requests served one at a time: one worker, and the timer is that worker.*)
(***************************************************************************)
OneProcess == \A p, q \in Processes : p = q

(* The copy of a request is the row; a request that loads finds no deleted *)
(* row.                                                                    *)
CopyIsRow ==
  \A p \in Processes :
    /\ proc[p].at # "idle" => proc[p].copy = rec
    /\ proc[p].at = "loaded" => rec.status # "DELETED"

(* The occurrences that a backfill with the copy r owes up to month m.     *)
Owing(r, m) ==
  {t \in Calendar : /\ t[1] \in r.start[1]..m
                    /\ t[2] = Lesser(r.day, Length[t[1]])
                    /\ r.freq = "YEARLY" => YearMonth(t[1]) = r.dueMonth
                    /\ ActiveOn(r, t) /\ Resolves(r)}

(* The months that the loop has passed have their occurrences.             *)
MonthsAreFilled ==
  \A p \in Processes :
    proc[p].op \in {"cron", "save", "enable"} =>
      /\ proc[p].at = "month" =>
           \A t \in Owing(proc[p].copy, proc[p].last) :
             t[1] < proc[p].month => occ[t] # None
      /\ proc[p].at = "answered" =>
           \A t \in Owing(proc[p].copy, proc[p].last) : occ[t] # None

(* The inductive invariant of one process. *)
Alone == IInv /\ CopyIsRow /\ MonthsAreFilled

(* What a process takes up or lays down in one write. *)
LEMMA Went ==
  ASSUME IInv, NEW p \in Processes, NEW at, NEW op, NEW copy, Goto(p, at, op, copy)
  PROVE  /\ proc'[p].at = at /\ proc'[p].op = op /\ proc'[p].copy = copy
         /\ proc'[p].last = 0
<1>1. proc \in [Processes -> Requests]
  BY DEF IInv, Typed, Requests
<1> QED BY <1>1 DEF Goto

(* A row that is swept stays deleted if it was. *)
LEMMA SweepKeepsDeleted ==
  ASSUME NEW u, rec.status = "DELETED"
  PROVE  AfterSweep(u) = rec
BY DEF AfterSweep, Expired, Live

(* A step of the one process that takes up or lays down a request. *)
LEMMA AloneGoes ==
  ASSUME RecurringAssumption, OneProcess, IInv, IInv', NEW p \in Processes,
         NEW at \in {"loaded", "backfill", "answered"}, NEW op, NEW copy \in Rows,
         Goto(p, at, op, copy), rec' = copy,
         at = "loaded" => copy.status # "DELETED"
  PROVE  CopyIsRow' /\ MonthsAreFilled'
<1>1. \A q \in Processes : q = p
  BY DEF OneProcess
<1>2. /\ proc'[p].at = at /\ proc'[p].op = op /\ proc'[p].copy = copy
      /\ proc'[p].last = 0
  BY Went
<1>3. CopyIsRow'
  BY <1>1, <1>2 DEF CopyIsRow
<1>4. MonthsAreFilled'
  <2>1. Owing(copy, 0)' = {}
    <3>1. copy.start \in Calendar
      BY DEF RecurringAssumption, Rows
    <3>2. Len(Length) \in Nat
      BY DEF RecurringAssumption
    <3>3. copy.start[1] \in 1..Len(Length)
      BY <3>1 DEF Calendar, Dates, Months
    <3> QED BY <3>2, <3>3 DEF Owing
  <2> QED BY <1>1, <1>2, <2>1 DEF MonthsAreFilled, Owing
<1> QED BY <1>3, <1>4

(* The process loses its request, or is without one. *)
LEMMA AloneRests ==
  ASSUME OneProcess, NEW p \in Processes, proc'[p].at = "idle"
  PROVE  CopyIsRow' /\ MonthsAreFilled'
BY DEF OneProcess, CopyIsRow, MonthsAreFilled

(* The requests that take up a row or are one write. *)
LEMMA AloneRequest ==
  ASSUME RecurringAssumption, OneProcess, Alone, IInv', NEW p \in Workers, Request(p)
  PROVE  /\ CopyIsRow' /\ MonthsAreFilled'
         /\ rec # None /\ rec.status = "DELETED" => rec' = rec
<1>1. p \in Processes /\ IInv /\ \A q \in Processes : q = p
  BY DEF Processes, Alone, OneProcess
<1>2. CASE Create(p)
  <2>1. PICK r \in Rows : rec' = r /\ Goto(p, "backfill", "save", r) /\ rec = None
    BY <1>2 DEF Create, ValidRows
  <2> QED BY <1>1, <2>1, AloneGoes
<1>3. CASE Load(p)
  <2>1. PICK op, u : Goto(p, "loaded", op, rec') /\ rec' = AfterSweep(u)
                     /\ Found(rec') /\ rec \in Rows
    BY <1>1, <1>3 DEF Load, IInv, Typed
  <2>2. rec' \in Rows
    BY <2>1, SweptRow
  <2>3. rec'.status # "DELETED"
    BY <2>1 DEF Found
  <2>4. rec.status = "DELETED" => rec' = rec
    BY <2>1, SweepKeepsDeleted
  <2>5. PICK row \in Rows : row = rec'
    BY <2>2
  <2> QED BY <1>1, <2>1, <2>3, <2>4, <2>5, AloneGoes
<1>4. CASE Generate(p)
  <2>1. PICK u : rec' = AfterSweep(u) /\ rec \in Rows
    BY <1>1, <1>4 DEF Generate, IInv, Typed
  <2>2. rec.status = "DELETED" => rec' = rec
    BY <2>1, SweepKeepsDeleted
  <2>3. CASE UNCHANGED proc
    <3>1. proc'[p].at = "idle"
      BY <1>4, <2>3 DEF Generate
    <3> QED BY <1>1, <2>2, <3>1, AloneRests
  <2>4. CASE \E m \in Months :
          proc' = [proc EXCEPT ![p] = [at |-> "month", op |-> "generate", copy |-> rec',
                                       month |-> m, last |-> m]]
    <3>1. proc'[p].at = "month" /\ proc'[p].op = "generate" /\ proc'[p].copy = rec'
      BY <1>1, <2>4 DEF IInv, Typed
    <3> QED BY <1>1, <2>2, <3>1 DEF CopyIsRow, MonthsAreFilled
  <2> QED BY <1>4, <2>3, <2>4 DEF Generate
<1>5. CASE DeleteOccurrence(p) \/ AddMember(p) \/ RemoveMember(p)
  <2>1. proc'[p].at = "idle" /\ rec' = rec
    BY <1>5 DEF DeleteOccurrence, AddMember, RemoveMember
  <2> QED BY <1>1, <2>1, AloneRests
<1> QED BY <1>2, <1>3, <1>4, <1>5 DEF Request

(* The writes of a request, and the sweep and the end of a backfill.       *)
LEMMA AloneWrites ==
  ASSUME RecurringAssumption, OneProcess, Alone, IInv', NEW p \in Processes,
         \/ Save(p) \/ Refuse(p) \/ Destroy(p) \/ Enable(p) \/ Disable(p)
         \/ Backfill(p)
  PROVE  /\ CopyIsRow' /\ MonthsAreFilled'
         /\ rec.status = "DELETED" => rec'.status = "DELETED"
<1>1. /\ IInv /\ \A q \in Processes : q = p
      /\ proc[p].copy = rec /\ rec \in Rows
      /\ proc[p].at = "loaded" => rec.status # "DELETED"
  BY DEF Alone, OneProcess, CopyIsRow, IInv, Backed,
         Save, Refuse, Destroy, Enable, Disable, Backfill
<1>2. ASSUME NEW op, NEW row \in Rows, Goto(p, "backfill", op, row), rec' = row
      PROVE  CopyIsRow' /\ MonthsAreFilled'
  <2>1. IInv
    BY <1>1
  <2> QED BY <1>2, <2>1, AloneGoes
<1>3. ASSUME NEW op, NEW row \in Rows, Goto(p, "answered", op, row), rec' = row
      PROVE  CopyIsRow' /\ MonthsAreFilled'
  <2>1. IInv
    BY <1>1
  <2> QED BY <1>3, <2>1, AloneGoes
<1>4. CASE Save(p) \/ Refuse(p) \/ Destroy(p) \/ Enable(p) \/ Disable(p)
  <2>1. CASE Save(p)
    BY <1>1, <1>2, <2>1 DEF Save, ValidRows
  <2>2. CASE Refuse(p)
    BY <1>1, <1>3, <2>2 DEF Refuse
  <2>3. CASE Destroy(p)
    BY <1>1, <1>3, <2>3, SwitchedRow DEF Destroy
  <2>4. CASE Enable(p)
    BY <1>1, <1>2, <2>4, SwitchedRow DEF Enable
  <2>5. CASE Disable(p)
    BY <1>1, <1>3, <2>5, SwitchedRow DEF Disable
  <2> QED BY <1>4, <2>1, <2>2, <2>3, <2>4, <2>5
<1>5. CASE Backfill(p)
  <2>1. CASE /\ Expired(rec) /\ rec' = Switched(rec, "DISABLED")
             /\ Goto(p, "answered", proc[p].op, Switched(rec, "DISABLED"))
    <3>1. rec.status # "DELETED"
      BY <2>1 DEF Expired, Live
    <3> QED BY <1>1, <1>3, <2>1, <3>1, SwitchedRow
  <2>2. CASE UNCHANGED rec /\ Goto(p, "answered", proc[p].op, rec)
    BY <1>1, <1>3, <2>2
  <2>3. CASE /\ UNCHANGED rec
             /\ proc' = [proc EXCEPT ![p].at = "month", ![p].month = rec.start[1],
                                     ![p].last = LastMonth(rec)]
    <3>1. proc \in [Processes -> Requests]
      BY <1>1 DEF IInv, Typed, Requests
    <3>2. /\ proc'[p].at = "month" /\ proc'[p].copy = rec
          /\ proc'[p].month = rec.start[1]
      BY <1>1, <3>1, <2>3 DEF Requests
    <3>3. CopyIsRow'
      BY <1>1, <2>3, <3>2 DEF CopyIsRow
    <3>4. MonthsAreFilled'
      <4>1. PICK row, last : row = rec /\ last = proc'[p].last
        OBVIOUS
      <4>2. /\ row.start[1] \in Int
            /\ \A t \in Calendar : t[1] \in Int
        <5>1. row.start \in Calendar /\ Len(Length) \in Nat
          BY <1>1, <4>1 DEF RecurringAssumption, Rows
        <5>2. \A t \in Calendar : t[1] \in 1..Len(Length)
          BY DEF Calendar, Dates, Months
        <5> QED BY <5>1, <5>2
      <4>3. \A t \in Owing(row, last)' : ~(t[1] < row.start[1])
        <5>1. \A t \in Owing(row, last)' : /\ t \in Calendar
                                           /\ t[1] \in row.start[1]..last
          BY DEF Owing
        <5> QED BY <4>2, <5>1
      <4> QED BY <1>1, <2>3, <3>2, <4>1, <4>3 DEF MonthsAreFilled
    <3> QED BY <2>3, <3>3, <3>4
  <2> QED BY <1>1, <1>5, <2>1, <2>2, <2>3 DEF Backfill
<1> QED BY <1>4, <1>5

(* A month of the loop leaves the occurrence it owes, and only adds.       *)
LEMMA AloneMonth ==
  ASSUME RecurringAssumption, OneProcess, Alone, IInv', NEW p \in Processes, Month(p)
  PROVE  CopyIsRow' /\ MonthsAreFilled' /\ rec' = rec
<1> DEFINE n == proc[p].month
           due == OccurrenceDate(rec, n)
<1>1. /\ IInv /\ \A q \in Processes : q = p
      /\ proc[p].copy = rec /\ rec \in Rows /\ proc[p] \in Requests
      /\ proc[p].at = "month"
      /\ proc \in [Processes -> Requests]
  BY DEF Alone, OneProcess, CopyIsRow, IInv, Typed, Requests, Backed, Month
<1>2. /\ rec' = rec /\ template' = template /\ active' = active
      /\ proc'[p] = [proc[p] EXCEPT !.month = n + 1]
      /\ occ' = IF DueIn(rec, n) THEN WithOccurrence(rec, due) ELSE occ
  BY <1>1 DEF Month
<1>3. /\ proc'[p].at = "month" /\ proc'[p].op = proc[p].op /\ proc'[p].copy = rec
      /\ proc'[p].last = proc[p].last /\ proc'[p].month = n + 1 /\ n \in Int
  <2>1. Len(Length) \in Nat
    BY DEF RecurringAssumption
  <2> QED BY <1>1, <1>2, <2>1 DEF Requests
<1>4. CopyIsRow'
  BY <1>1, <1>2, <1>3 DEF CopyIsRow
<1>5. \A t \in Calendar : occ[t] # None => occ'[t] # None
  <2>1. occ \in [Calendar -> (SUBSET Members) \cup {None}]
    BY <1>1 DEF IInv, Typed
  <2>2. CASE occ' = occ
    BY <2>2
  <2>3. CASE occ' = [occ EXCEPT ![due] = Sharers(rec)] /\ Resolves(rec)
    <3>1. Sharers(rec) # None
      BY <1>1, <2>3, SharersExist DEF RecurringAssumption, IInv, Typed, Backed
    <3> QED BY <2>1, <2>3, <3>1
  <2> QED BY <1>2, <2>2, <2>3 DEF WithOccurrence
<1>6. ASSUME NEW t \in Owing(rec, proc[p].last), t[1] = n
      PROVE  occ'[t] # None
  <2>1. /\ t \in Calendar /\ t[2] = Lesser(rec.day, Length[t[1]])
        /\ rec.freq = "YEARLY" => YearMonth(t[1]) = rec.dueMonth
        /\ ActiveOn(rec, t) /\ Resolves(rec)
    BY <1>6 DEF Owing
  <2>2. t = <<t[1], t[2]>>
    BY <2>1 DEF Calendar, Dates
  <2>3. due = t
    BY <1>6, <2>1, <2>2 DEF OccurrenceDate
  <2>4. occ' = WithOccurrence(rec, t)
    <3>1. due # None
      BY <2>1, <2>3 DEF RecurringAssumption
    <3> QED BY <1>2, <2>1, <2>3, <3>1 DEF DueIn
  <2>5. Sharers(rec) # None
    BY <1>1, <2>1, SharersExist DEF RecurringAssumption, IInv, Typed, Backed
  <2>6. occ \in [Calendar -> (SUBSET Members) \cup {None}]
    BY <1>1 DEF IInv, Typed
  <2> QED BY <2>1, <2>4, <2>5, <2>6 DEF WithOccurrence
<1>7. MonthsAreFilled'
  <2>0. PICK row, last : row = rec /\ last = proc[p].last
    OBVIOUS
  <2>1. Owing(row, last)' = Owing(row, last)
    BY <1>2 DEF Owing, Resolves
  <2>2. ASSUME proc[p].op \in {"cron", "save", "enable"},
               NEW t \in Owing(row, last), t[1] < n + 1
        PROVE  occ'[t] # None
    <3>1. t \in Calendar /\ t[1] \in Int
      <4>1. Len(Length) \in Nat
        BY DEF RecurringAssumption
      <4> QED BY <2>2, <4>1 DEF Owing, Calendar, Dates, Months
    <3>2. CASE t[1] = n
      BY <1>6, <2>0, <2>2, <3>2
    <3>3. CASE t[1] < n
      <4>1. occ[t] # None
        BY <1>1, <2>0, <2>2, <3>3 DEF Alone, MonthsAreFilled
      <4> QED BY <1>5, <3>1, <4>1
    <3> QED BY <1>3, <2>2, <3>1, <3>2, <3>3
  <2>3. proc[p].op \in {"cron", "save", "enable"} =>
          \A t \in Owing(row, last)' : t[1] < n + 1 => occ'[t] # None
    BY <2>1, <2>2
  <2> HIDE DEF n
  <2>4. /\ proc'[p].at # "answered" /\ proc'[p].copy = row /\ proc'[p].last = last
        /\ proc'[p].month = n + 1 /\ proc'[p].op = proc[p].op
    BY <1>3, <2>0
  <2> QED BY <1>1, <2>3, <2>4 DEF MonthsAreFilled
<1> QED BY <1>2, <1>4, <1>7

(* The end of the loop, of a request and of a process.                     *)
LEMMA AloneEnds ==
  ASSUME RecurringAssumption, OneProcess, Alone, IInv', NEW p \in Processes,
         LoopEnds(p) \/ Answer(p) \/ Crash(p)
  PROVE  CopyIsRow' /\ MonthsAreFilled' /\ rec' = rec
<1>1. /\ IInv /\ \A q \in Processes : q = p
      /\ proc[p].copy = rec /\ proc[p] \in Requests
      /\ proc \in [Processes -> Requests]
      /\ UNCHANGED <<rec, template, occ, active, today>>
  BY DEF Alone, OneProcess, CopyIsRow, IInv, Typed, Requests, LoopEnds, Answer, Crash
<1>2. CASE Answer(p) \/ Crash(p)
  <2>1. proc'[p].at = "idle"
    BY <1>1, <1>2 DEF Answer, Crash, Idle
  <2> QED BY <1>1, <2>1, AloneRests
<1>3. CASE LoopEnds(p)
  <2>1. /\ proc[p].at = "month" /\ proc[p].month > proc[p].last
        /\ proc'[p] = [proc[p] EXCEPT !.at = "answered"]
    BY <1>1, <1>3 DEF LoopEnds
  <2>2. /\ proc'[p].at = "answered" /\ proc'[p].op = proc[p].op
        /\ proc'[p].copy = rec /\ proc'[p].last = proc[p].last
    BY <1>1, <2>1 DEF Requests
  <2>3. CopyIsRow'
    BY <1>1, <2>2 DEF CopyIsRow
  <2>4. Owing(rec, proc[p].last)' = Owing(rec, proc[p].last)
    BY <1>1, <2>2 DEF Owing, Resolves
  <2>5. ASSUME proc[p].op \in {"cron", "save", "enable"},
               NEW t \in Owing(rec, proc[p].last)
        PROVE  occ[t] # None
    <3>1. t[1] < proc[p].month
      <4>1. Len(Length) \in Nat
        BY DEF RecurringAssumption
      <4>2. t[1] \in Int /\ proc[p].month \in Int /\ proc[p].last \in Int
        BY <1>1, <4>1 DEF Owing, Calendar, Dates, Months, Requests
      <4>3. rec.start[1] \in Int
        <5>1. rec \in Rows
          BY <1>1, <2>1 DEF IInv, Backed
        <5>2. rec.start \in Calendar
          BY <5>1 DEF RecurringAssumption, Rows
        <5>3. \A u \in Calendar : u[1] \in 1..Len(Length)
          BY DEF Calendar, Dates, Months
        <5> QED BY <4>1, <5>2, <5>3
      <4>4. t[1] <= proc[p].last
        BY <4>2, <4>3 DEF Owing
      <4> QED BY <2>1, <4>2, <4>4
    <3> QED BY <1>1, <2>1, <2>5, <3>1 DEF Alone, MonthsAreFilled
  <2>6. MonthsAreFilled'
    BY <1>1, <2>2, <2>4, <2>5 DEF MonthsAreFilled
  <2> QED BY <1>1, <2>3, <2>6
<1> QED BY <1>2, <1>3

(* Every step of one process keeps the invariant.                          *)
LEMMA AloneStep ==
  ASSUME RecurringAssumption, OneProcess, Alone, IInv', [Next]_allVars
  PROVE  CopyIsRow' /\ MonthsAreFilled'
<1>1. CASE \E p \in Workers : Request(p)
  <2>1. PICK p \in Workers : Request(p)
    BY <1>1
  <2>2. /\ CopyIsRow' /\ MonthsAreFilled'
        /\ rec # None /\ rec.status = "DELETED" => rec' = rec
    BY <2>1, AloneRequest
  <2> QED BY <2>2
<1>2. CASE \E p \in Processes : Work(p) \/ Crash(p)
  <2>1. PICK p \in Processes : Work(p) \/ Crash(p)
    BY <1>2
  <2>2. CASE Save(p) \/ Refuse(p) \/ Destroy(p) \/ Enable(p) \/ Disable(p) \/ Backfill(p)
    BY <2>2, AloneWrites
  <2>3. CASE Month(p)
    <3>1. CopyIsRow' /\ MonthsAreFilled' /\ rec' = rec
      BY <2>3, AloneMonth
    <3> QED BY <3>1
  <2>4. CASE LoopEnds(p) \/ Answer(p) \/ Crash(p)
    <3>1. CopyIsRow' /\ MonthsAreFilled' /\ rec' = rec
      BY <2>4, AloneEnds
    <3> QED BY <3>1
  <2> QED BY <2>1, <2>2, <2>3, <2>4 DEF Work
<1>3. CASE CronFetch
  <2>1. Cron \in Processes /\ IInv /\ IInv'
    BY DEF Processes, Alone
  <2>2. /\ Goto(Cron, "backfill", "cron", rec) /\ rec' = rec /\ rec \in Rows
        /\ rec.status # "DELETED"
    BY <1>3, <2>1 DEF CronFetch, Live, IInv, Typed
  <2>3. CopyIsRow' /\ MonthsAreFilled'
    BY <2>1, <2>2, AloneGoes
  <2> QED BY <2>2, <2>3
<1>4. CASE Midnight \/ UNCHANGED allVars
  <2>1. UNCHANGED <<rec, template, occ, active, proc>>
    BY <1>4 DEF Midnight, allVars, vars
  <2>2. CopyIsRow' /\ MonthsAreFilled'
    BY <2>1 DEF Alone, CopyIsRow, MonthsAreFilled, Owing, Resolves
  <2> QED BY <2>1, <2>2
<1> QED BY <1>1, <1>2, <1>3, <1>4 DEF Next, Steps

(* The invariant of one process holds throughout.                          *)
LEMMA AloneSound ==
  ASSUME RecurringAssumption, OneProcess
  PROVE  Spec => []Alone
<1>1. Init => CopyIsRow /\ MonthsAreFilled
  BY DEF Init, Idle, CopyIsRow, MonthsAreFilled
<1>2. IInv /\ IInv' /\ CopyIsRow /\ MonthsAreFilled /\ [Next]_allVars
        => CopyIsRow' /\ MonthsAreFilled'
  BY AloneStep DEF Alone
<1>3. Spec => []IInv
  BY SpecSound
<1>4. Alone <=> IInv /\ CopyIsRow /\ MonthsAreFilled
  BY DEF Alone
<1> QED BY <1>1, <1>2, <1>3, <1>4, PTL DEF Spec

(* Served one at a time, a request answers what it left in the row: an     *)
(* expired row that is enabled is answered as disabled again.              *)
THEOREM AnswersAreTrue ==
  ASSUME RecurringAssumption, OneProcess
  PROVE  Spec => []AnswersTellTheTruth
<1>1. Alone => AnswersTellTheTruth
  BY DEF Alone, CopyIsRow, AnswersTellTheTruth
<1> QED BY <1>1, AloneSound, PTL

(* Served one at a time, a backfill that ends has left no month out, for   *)
(* every calendar, frequency, window and day of the month.                 *)
THEOREM NoMonthIsLeftOut ==
  ASSUME RecurringAssumption, OneProcess
  PROVE  Spec => []BackfillLeavesNoHole
<1>1. Alone => BackfillLeavesNoHole
  BY DEF Alone, MonthsAreFilled, Owing, BackfillLeavesNoHole
<1> QED BY <1>1, AloneSound, PTL
=============================================================================
