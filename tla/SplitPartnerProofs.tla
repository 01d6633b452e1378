-------------------------- MODULE SplitPartnerProofs --------------------------
(***************************************************************************)
(* The partner links of SplitPartner for any number of users, workers and  *)
(* links.                                                                  *)
(*                                                                         *)
(* The argument: what a request carries from one statement to the next     *)
(* (ProcSound) and what a link says (LinkSound) only ever speak of users   *)
(* who asked or agreed, and both are facts that no other worker can undo:  *)
(* links are never deleted, their ends never change and agreed only grows. *)
(* A request that has looked for an open one of the other direction has    *)
(* none behind it from before its arrival (Passed), and none can come: new *)
(* rows are younger, and an answered row is never open again.              *)
(***************************************************************************)
EXTENDS SplitPartner, TLAPS

LinkRows == [from : Users, to : Users, status : {"PENDING", "ACCEPTED", "DECLINED"}]

(* The rows a request has read still bear out what it is about to write.   *)
RequestSound(w) ==
  LET u == proc[w].user
      v == proc[w].other
      i == proc[w].link IN
  /\ proc[w].at \in {"opposite", "existing", "linked", "insert"}
       => <<u, v>> \in Pairs /\ <<u, v>> \in agreed
  /\ proc[w].at = "accept"
       => /\ <<u, v>> \in Pairs /\ <<u, v>> \in agreed
          /\ i \in DOMAIN links /\ links[i].from = v /\ links[i].to = u
  /\ proc[w].at = "decline" => i \in DOMAIN links
  /\ proc[w].at \in {"archive", "delete"} => <<u, v>> \in Pairs

ProcSound == \A w \in Workers : RequestSound(w)

(* The rows that were there when the request of w arrived hold no open one *)
(* of the other direction, once it has looked.                             *)
Passed(w) ==
  /\ proc[w].since <= Len(links)
  /\ proc[w].at \in {"existing", "linked", "insert"} =>
       \A i \in DOMAIN links :
         /\ links[i].status = "PENDING"
         /\ links[i].from = proc[w].other /\ links[i].to = proc[w].user
         => proc[w].since < i

AllPassed == \A w \in Workers : Passed(w)

(* Whoever is the sender of a link has asked for it. *)
LinkSound == \A i \in DOMAIN links : <<links[i].from, links[i].to>> \in agreed

(* The inductive invariant. *)
IInv ==
  /\ TypeOK /\ ProcSound /\ AllPassed /\ LinkSound
  /\ NoStandoff /\ BothAgreed /\ ReferencedContactStays

-----------------------------------------------------------------------------
(* The type of proc. *)
Procs == [Workers ->
           [at : {"idle", "opposite", "existing", "linked", "insert",
                  "accept", "decline", "archive", "delete"},
            user : Users \cup {None}, other : Users \cup {None}, link : Nat,
            since : Nat]]

(* A request that ends leaves an idle worker. *)
LEMMA IdleIsSound ==
  ASSUME NEW w \in Workers, TypeOK, Done(w)
  PROVE  /\ proc' \in Procs
         /\ proc'[w].at = "idle" /\ proc'[w].since = 0
         /\ \A x \in Workers \ {w} : proc'[x] = proc[x]
BY DEF TypeOK, Procs, Done, Idle

(* What a request has read survives every change of the links that keeps   *)
(* the rows and their ends, as long as agreed does not shrink.             *)
LEMMA OthersStaySound ==
  ASSUME NEW w \in Workers, ProcSound,
         \A x \in Workers \ {w} : proc'[x] = proc[x],
         agreed \subseteq agreed',
         \A i \in DOMAIN links :
           /\ i \in DOMAIN links'
           /\ links'[i].from = links[i].from /\ links'[i].to = links[i].to,
         RequestSound(w)'
  PROVE  ProcSound'
<1> SUFFICES ASSUME NEW x \in Workers \ {w}
             PROVE  RequestSound(x)'
  BY DEF ProcSound
<1>1. RequestSound(x) /\ proc'[x] = proc[x]
  BY DEF ProcSound
<1> QED BY <1>1 DEF RequestSound, Pairs

(* No other worker opens a row behind a request that has looked.           *)
LEMMA OthersStayPassed ==
  ASSUME NEW w \in Workers, TypeOK, AllPassed, Passed(w)',
         \A x \in Workers \ {w} : proc'[x] = proc[x],
         links' \in Seq(LinkRows), Len(links) <= Len(links'),
         \A i \in DOMAIN links :
           /\ links'[i].from = links[i].from /\ links'[i].to = links[i].to
           /\ links'[i].status = "PENDING" => links[i].status = "PENDING"
  PROVE  AllPassed'
<1> SUFFICES ASSUME NEW x \in Workers \ {w} PROVE Passed(x)'
  BY DEF AllPassed
<1>1. Passed(x) /\ proc'[x] = proc[x] /\ proc[x].since \in Nat
  BY DEF AllPassed, TypeOK
<1>2. /\ DOMAIN links = 1 .. Len(links) /\ Len(links) \in Nat
      /\ DOMAIN links' = 1 .. Len(links') /\ Len(links') \in Nat
  BY DEF TypeOK
<1>3. proc[x].since <= Len(links) /\ proc[x].since <= Len(links')
  BY <1>1, <1>2 DEF Passed
<1>4. ASSUME proc[x].at \in {"existing", "linked", "insert"},
             NEW i \in DOMAIN links', links'[i].status = "PENDING",
             links'[i].from = proc[x].other, links'[i].to = proc[x].user
      PROVE  proc[x].since < i
  <2>1. CASE i \in DOMAIN links
    BY <1>1, <1>4, <2>1 DEF Passed
  <2>2. CASE i \notin DOMAIN links
    <3>1. i \in Nat /\ Len(links) < i
      BY <1>2, <2>2
    <3> QED BY <1>1, <1>2, <1>3, <3>1
  <2> QED BY <2>1, <2>2
<1> QED BY <1>1, <1>3, <1>4 DEF Passed

(* Answering a link keeps the table well-formed: the two ends stay, and no *)
(* link becomes PENDING. *)
LEMMA AnswerKeepsLinks ==
  ASSUME TypeOK, LinkSound, NoStandoff,
         NEW i \in DOMAIN links, NEW status \in {"ACCEPTED", "DECLINED"},
         links' = [links EXCEPT ![i].status = status],
         agreed \subseteq agreed', begun' = begun
  PROVE  /\ links' \in Seq(LinkRows)
         /\ DOMAIN links' = DOMAIN links /\ Len(links') = Len(links)
         /\ \A j \in DOMAIN links :
              /\ links'[j].from = links[j].from /\ links'[j].to = links[j].to
              /\ links'[j].status = "PENDING" => links[j].status = "PENDING"
         /\ LinkSound' /\ NoStandoff'
<1>1. links \in Seq(LinkRows) /\ DOMAIN links = 1 .. Len(links) /\ Len(links) \in Nat
  BY DEF TypeOK, LinkRows
<1>2. [links[i] EXCEPT !.status = status] \in LinkRows
  <2>1. links[i] \in LinkRows
    BY <1>1
  <2> QED BY <2>1 DEF LinkRows
<1>3. links' = [links EXCEPT ![i] = [links[i] EXCEPT !.status = status]]
  OBVIOUS
<1>4. /\ links' \in Seq(LinkRows) /\ DOMAIN links' = DOMAIN links
      /\ Len(links') = Len(links)
  BY <1>1, <1>2, <1>3
<1>5. \A j \in DOMAIN links :
        /\ links'[j].from = links[j].from /\ links'[j].to = links[j].to
        /\ links'[j].status = "PENDING" => links'[j] = links[j]
  BY <1>1 DEF LinkRows
<1>6. LinkSound'
  BY <1>4, <1>5 DEF LinkSound
<1>7. NoStandoff'
  <2> SUFFICES ASSUME NEW j \in DOMAIN links', NEW k \in DOMAIN links', j < k,
                      links'[j].status = "PENDING", links'[k].status = "PENDING",
                      links'[j].from = links'[k].to, links'[j].to = links'[k].from
               PROVE  begun'[k] < j
    BY DEF NoStandoff
  <2>1. links'[j] = links[j] /\ links'[k] = links[k]
    BY <1>4, <1>5
  <2> QED BY <1>4, <2>1 DEF NoStandoff
<1> QED BY <1>4, <1>5, <1>6, <1>7

(* The INSERT keeps it well-formed too: the request has passed the rows    *)
(* that were there when it arrived.                                        *)
LEMMA InsertKeepsLinks ==
  ASSUME TypeOK, LinkSound, NoStandoff,
         NEW u, NEW v, <<u, v>> \in Pairs, <<u, v>> \in agreed,
         NEW since \in Nat,
         \A i \in DOMAIN links :
           /\ links[i].status = "PENDING" /\ links[i].from = v /\ links[i].to = u
           => since < i,
         begun' = Append(begun, since),
         links' = Append(links, [from |-> u, to |-> v, status |-> "PENDING"]),
         agreed' = agreed
  PROVE  /\ links' \in Seq(LinkRows) /\ Len(links') = Len(links) + 1
         /\ begun' \in Seq(Nat) /\ Len(begun') = Len(begun) + 1
         /\ \A j \in DOMAIN links : j \in DOMAIN links' /\ links'[j] = links[j]
         /\ \A j \in DOMAIN links' : links'[j].from # links'[j].to
         /\ LinkSound' /\ NoStandoff'
<1> DEFINE row == [from |-> u, to |-> v, status |-> "PENDING"]
           n == Len(links) + 1
<1>1. links \in Seq(LinkRows) /\ DOMAIN links = 1 .. Len(links) /\ Len(links) \in Nat
  BY DEF TypeOK, LinkRows
<1>2. u \in Users /\ v \in Users /\ u # v /\ row \in LinkRows
  BY DEF Pairs, LinkRows
<1>3. /\ links' \in Seq(LinkRows) /\ DOMAIN links' = 1 .. n /\ Len(links') = n
      /\ \A j \in DOMAIN links : j \in DOMAIN links' /\ links'[j] = links[j]
      /\ links'[n] = row
      /\ \A j \in DOMAIN links' : j \in DOMAIN links \/ j = n
  BY <1>1, <1>2
<1>4. \A j \in DOMAIN links' : links'[j].from # links'[j].to
  BY <1>2, <1>3 DEF TypeOK
<1>8. links'[n].from = u /\ links'[n].to = v
  BY <1>3
<1>5. LinkSound'
  <2> SUFFICES ASSUME NEW j \in DOMAIN links'
               PROVE  <<links'[j].from, links'[j].to>> \in agreed
    BY DEF LinkSound
  <2> QED BY <1>3, <1>8 DEF LinkSound
<1>6. /\ begun' \in Seq(Nat) /\ Len(begun') = Len(begun) + 1
      /\ \A j \in DOMAIN links : begun'[j] = begun[j]
      /\ begun'[n] = since
  <2>1. begun \in Seq(Nat) /\ Len(begun) = Len(links)
    BY DEF TypeOK
  <2> QED BY <1>1, <2>1
<1>7. NoStandoff'
  <2> SUFFICES ASSUME NEW i \in DOMAIN links', NEW j \in DOMAIN links', i < j,
                      links'[i].status = "PENDING", links'[j].status = "PENDING",
                      links'[i].from = links'[j].to, links'[i].to = links'[j].from
               PROVE  begun'[j] < i
    BY DEF NoStandoff
  <2>1. i \in DOMAIN links /\ links'[i] = links[i]
    BY <1>1, <1>3
  <2>2. CASE j \in DOMAIN links
    BY <1>3, <1>6, <2>1, <2>2 DEF NoStandoff
  <2>3. CASE j = n
    <3>1. links[i].status = "PENDING" /\ links[i].from = v /\ links[i].to = u
      BY <1>8, <2>1, <2>3
    <3> QED BY <1>6, <2>1, <2>3, <3>1
  <2> QED BY <1>3, <2>2, <2>3
<1> QED BY <1>3, <1>4, <1>5, <1>6, <1>7

-----------------------------------------------------------------------------
(* A pair of users is the two of them in either order. *)
LEMMA PairIsSymmetric ==
  ASSUME NEW u, NEW v, <<u, v>> \in Pairs
  PROVE  u \in Users /\ v \in Users /\ u # v /\ <<v, u>> \in Pairs
BY DEF Pairs

(* A step that only reads the tables keeps the invariant if what it has    *)
(* read supports what its request will write. *)
LEMMA ReadingIsSound ==
  ASSUME IInv, NEW w \in Workers, UNCHANGED <<links, contact, used, begun>>,
         agreed \subseteq agreed', agreed' \subseteq Pairs,
         proc' \in Procs, \A x \in Workers \ {w} : proc'[x] = proc[x],
         RequestSound(w)', Passed(w)'
  PROVE  IInv'
<1>1. TypeOK'
  BY DEF IInv, TypeOK, Procs
<1>2. ProcSound'
  BY OthersStaySound DEF IInv
<1>3. LinkSound' /\ NoStandoff'
  BY DEF IInv, LinkSound, NoStandoff
<1>4. BothAgreed' /\ ReferencedContactStays'
  BY DEF IInv, BothAgreed, ReferencedContactStays
<1>5. AllPassed'
  <2>1. links \in Seq(LinkRows) /\ Len(links) \in Nat
    BY DEF IInv, TypeOK, LinkRows
  <2> QED BY <2>1, OthersStayPassed DEF IInv
<1> QED BY <1>1, <1>2, <1>3, <1>4, <1>5 DEF IInv

(* The lookups of send_partner_request. *)
LEMMA SendKeepsIInv ==
  ASSUME IInv, NEW w \in Workers,
         Send(w) \/ LookOpposite(w) \/ LookExisting(w) \/ LookLinked(w)
  PROVE  IInv'
<1>1. /\ proc \in Procs /\ agreed \subseteq Pairs /\ RequestSound(w)
      /\ Passed(w) /\ Len(links) \in Nat
  BY DEF IInv, TypeOK, Procs, ProcSound, AllPassed
<1>2. CASE Send(w)
  <2>1. PICK p \in Pairs : Serve(w, "opposite", p[1], p[2], 0) /\ agreed' = agreed \cup {p}
    BY <1>2 DEF Send
  <2>2. p[1] \in Users /\ p[2] \in Users /\ p = <<p[1], p[2]>>
    BY DEF Pairs
  <2>3. proc' \in Procs /\ \A x \in Workers \ {w} : proc'[x] = proc[x]
    BY <1>1, <2>1, <2>2 DEF Serve, Procs
  <2>4. RequestSound(w)'
    BY <1>1, <2>1, <2>2 DEF Serve, Procs, RequestSound, Pairs
  <2>5. Passed(w)'
    BY <1>1, <1>2, <2>1 DEF Serve, Procs, Passed, Send
  <2> QED BY <1>1, <1>2, <2>1, <2>3, <2>4, <2>5, ReadingIsSound DEF Send
<1>3. CASE LookOpposite(w)
  <2>1. /\ <<proc[w].user, proc[w].other>> \in Pairs
        /\ <<proc[w].user, proc[w].other>> \in agreed
    BY <1>1, <1>3 DEF LookOpposite, RequestSound
  <2>2. CASE \E i \in With(proc[w].other, proc[w].user, "PENDING") :
               Serve(w, "accept", proc[w].user, proc[w].other, i)
    <3>1. PICK i \in With(proc[w].other, proc[w].user, "PENDING") :
            Serve(w, "accept", proc[w].user, proc[w].other, i)
      BY <2>2
    <3>2. /\ i \in DOMAIN links /\ i \in Nat
          /\ links[i].from = proc[w].other /\ links[i].to = proc[w].user
      BY DEF With, IInv, TypeOK
    <3>3. proc' \in Procs /\ \A x \in Workers \ {w} : proc'[x] = proc[x]
      BY <1>1, <2>1, <3>1, <3>2 DEF Serve, Procs, Pairs
    <3>4. RequestSound(w)'
      BY <1>1, <1>3, <2>1, <3>1, <3>2 DEF Serve, Procs, RequestSound, LookOpposite, Pairs
    <3>5. Passed(w)'
      BY <1>1, <1>3, <3>1 DEF Serve, Procs, Passed, LookOpposite
    <3> QED BY <1>1, <1>3, <3>3, <3>4, <3>5, ReadingIsSound DEF LookOpposite
  <2>3. CASE /\ With(proc[w].other, proc[w].user, "PENDING") = {}
             /\ Step(w, "existing")
    <3>1. proc' \in Procs /\ \A x \in Workers \ {w} : proc'[x] = proc[x]
      BY <1>1, <2>3 DEF Step, Procs
    <3>2. RequestSound(w)'
      BY <1>1, <1>3, <2>1, <2>3 DEF Step, Procs, RequestSound, LookOpposite, Pairs
    <3>3. \A i \in DOMAIN links :
            ~(/\ links[i].status = "PENDING"
              /\ links[i].from = proc[w].other /\ links[i].to = proc[w].user)
      <4> SUFFICES ASSUME NEW i \in DOMAIN links, links[i].status = "PENDING",
                          links[i].from = proc[w].other, links[i].to = proc[w].user
                   PROVE  FALSE
        OBVIOUS
      <4>0. links \in Seq(LinkRows)
        BY DEF IInv, TypeOK, LinkRows
      <4>1. links[i] \in LinkRows
        BY <4>0
      <4>2. links[i] = [from |-> proc[w].other, to |-> proc[w].user,
                        status |-> "PENDING"]
        BY <4>1 DEF LinkRows
      <4> QED BY <2>3, <4>2 DEF With
    <3>4. /\ links' = links /\ proc'[w].since = proc[w].since
          /\ proc'[w].user = proc[w].user /\ proc'[w].other = proc[w].other
      BY <1>1, <1>3, <2>3 DEF Step, Procs, LookOpposite
    <3>5. Passed(w)'
      BY <1>1, <3>3, <3>4 DEF Passed
    <3> QED BY <1>1, <1>3, <3>1, <3>2, <3>5, ReadingIsSound DEF LookOpposite
  <2> QED BY <1>3, <2>2, <2>3 DEF LookOpposite
<1>4. CASE LookExisting(w) \/ LookLinked(w)
  <2>1. /\ <<proc[w].user, proc[w].other>> \in Pairs
        /\ <<proc[w].user, proc[w].other>> \in agreed
        /\ UNCHANGED <<links, contact, used, agreed, begun>>
        /\ proc[w].at \in {"existing", "linked"}
        /\ Done(w) \/ Step(w, "linked") \/ Step(w, "insert")
    BY <1>1, <1>4 DEF LookExisting, LookLinked, RequestSound
  <2>2. CASE Done(w)
    <3>1. /\ proc' \in Procs /\ proc'[w].at = "idle" /\ proc'[w].since = 0
          /\ \A x \in Workers \ {w} : proc'[x] = proc[x]
      BY <2>2, IdleIsSound DEF IInv, Procs
    <3>2. RequestSound(w)'
      BY <3>1 DEF RequestSound
    <3>3. Passed(w)'
      BY <1>1, <2>1, <3>1 DEF Passed
    <3> QED BY <1>1, <2>1, <3>1, <3>2, <3>3, ReadingIsSound
  <2>3. CASE Step(w, "linked") \/ Step(w, "insert")
    <3>1. /\ proc' \in Procs /\ \A x \in Workers \ {w} : proc'[x] = proc[x]
          /\ proc'[w].at \in {"linked", "insert"}
          /\ proc'[w].user = proc[w].user /\ proc'[w].other = proc[w].other
          /\ proc'[w].since = proc[w].since
      <4>1. PICK at \in {"linked", "insert"} : proc' = [proc EXCEPT ![w].at = at]
        BY <2>3 DEF Step
      <4> QED BY <1>1, <4>1 DEF Procs
    <3>2. RequestSound(w)'
      BY <2>1, <3>1 DEF RequestSound, Pairs
    <3>3. Passed(w)'
      BY <1>1, <2>1, <3>1 DEF Passed
    <3> QED BY <1>1, <2>1, <3>1, <3>2, <3>3, ReadingIsSound
  <2> QED BY <2>1, <2>2, <2>3
<1> QED BY <1>2, <1>3, <1>4

(* The lookups of the answers and of the deletion. *)
LEMMA LoadKeepsIInv ==
  ASSUME IInv, NEW w \in Workers, LoadAnswer(w) \/ LoadDelete(w)
  PROVE  IInv'
<1>1. proc \in Procs /\ agreed \subseteq Pairs /\ Len(links) \in Nat
  BY DEF IInv, TypeOK, Procs
<1>2. CASE LoadAnswer(w)
  <2>1. PICK i \in DOMAIN links :
          \/ /\ Serve(w, "accept", links[i].to, links[i].from, i)
             /\ agreed' = agreed \cup {<<links[i].to, links[i].from>>}
          \/ Serve(w, "decline", links[i].to, links[i].from, i) /\ UNCHANGED agreed
    BY <1>2 DEF LoadAnswer
  <2>2. /\ i \in Nat /\ links[i].from \in Users /\ links[i].to \in Users
        /\ links[i].from # links[i].to
    <3>1. links \in Seq(LinkRows)
      BY DEF IInv, TypeOK, LinkRows
    <3>2. i \in Nat /\ links[i] \in LinkRows
      BY <3>1
    <3> QED BY <3>2 DEF LinkRows, IInv, TypeOK
  <2>3. <<links[i].to, links[i].from>> \in Pairs
    BY <2>2 DEF Pairs
  <2>4. UNCHANGED <<links, contact, used, begun>>
    BY <1>2 DEF LoadAnswer
  <2>5. proc' \in Procs /\ \A x \in Workers \ {w} : proc'[x] = proc[x]
    BY <1>1, <2>1, <2>2 DEF Serve, Procs
  <2>6. RequestSound(w)'
    BY <1>1, <2>1, <2>2, <2>3, <2>4 DEF Serve, Procs, RequestSound, Pairs
  <2>7. agreed \subseteq agreed' /\ agreed' \subseteq Pairs
    BY <1>1, <2>1, <2>3
  <2>8. Passed(w)'
    BY <1>1, <2>1, <2>4 DEF Serve, Procs, Passed
  <2> QED BY <2>4, <2>5, <2>6, <2>7, <2>8, ReadingIsSound
<1>3. CASE LoadDelete(w)
  <2>1. PICK p \in Pairs, at \in {"archive", "delete"} : Serve(w, at, p[1], p[2], 0)
    BY <1>3 DEF LoadDelete
  <2>2. p[1] \in Users /\ p[2] \in Users /\ <<p[1], p[2]>> \in Pairs
    BY DEF Pairs
  <2>3. proc' \in Procs /\ \A x \in Workers \ {w} : proc'[x] = proc[x]
    BY <1>1, <2>1, <2>2 DEF Serve, Procs
  <2>4. RequestSound(w)'
    BY <1>1, <2>1, <2>2 DEF Serve, Procs, RequestSound, Pairs
  <2>5. Passed(w)'
    BY <1>1, <1>3, <2>1 DEF Serve, Procs, Passed, LoadDelete
  <2> QED BY <1>1, <1>3, <2>3, <2>4, <2>5, ReadingIsSound DEF LoadDelete
<1> QED BY <1>2, <1>3

(* The INSERT of send_partner_request. *)
LEMMA InsertKeepsIInv ==
  ASSUME IInv, NEW w \in Workers, Insert(w)
  PROVE  IInv'
<1> DEFINE u == proc[w].user
           v == proc[w].other
<1>1. <<u, v>> \in Pairs /\ <<u, v>> \in agreed
  BY DEF IInv, ProcSound, RequestSound, Insert
<1>0. /\ links \in Seq(LinkRows) /\ Len(links) \in Nat
      /\ proc[w].since \in Nat
      /\ \A i \in DOMAIN links :
           /\ links[i].status = "PENDING" /\ links[i].from = v /\ links[i].to = u
           => proc[w].since < i
  <2>1. links \in Seq(LinkRows) /\ Len(links) \in Nat
    BY DEF IInv, TypeOK, LinkRows
  <2>2. proc \in Procs /\ proc[w].at = "insert" /\ Passed(w)
    BY DEF IInv, TypeOK, Procs, AllPassed, Insert
  <2>3. proc[w].since \in Nat
    BY <2>2 DEF Procs
  <2> QED BY <2>1, <2>2, <2>3 DEF Passed
<1>2. /\ proc' \in Procs /\ proc'[w].at = "idle" /\ proc'[w].since = 0
      /\ \A x \in Workers \ {w} : proc'[x] = proc[x]
  BY IdleIsSound DEF IInv, Procs, Insert
<1>3. RequestSound(w)'
  BY <1>2 DEF RequestSound
<1>4. UNCHANGED <<contact, used, agreed>>
  BY DEF Insert
<1>5. CASE MayInsert(u, v)
  <2>1. /\ links' = Append(links, [from |-> u, to |-> v, status |-> "PENDING"])
        /\ begun' = Append(begun, proc[w].since)
    BY <1>5 DEF Insert
  <2> HIDE DEF u, v
  <2>2. /\ links' \in Seq(LinkRows) /\ Len(links') = Len(links) + 1
        /\ begun' \in Seq(Nat) /\ Len(begun') = Len(begun) + 1
        /\ \A j \in DOMAIN links : j \in DOMAIN links' /\ links'[j] = links[j]
        /\ \A j \in DOMAIN links' : links'[j].from # links'[j].to
        /\ LinkSound' /\ NoStandoff'
    <3>1. PICK since \in Nat : since = proc[w].since
      BY <1>0
    <3> QED BY <1>0, <1>1, <1>4, <2>1, <3>1, InsertKeepsLinks DEF IInv
  <2>6. AllPassed'
    <3>1. Len(links) <= Len(links')
      BY <1>0, <2>2
    <3>2. Passed(w)'
      BY <1>0, <1>2, <2>2 DEF Passed
    <3> QED BY <1>2, <2>2, <3>1, <3>2, OthersStayPassed DEF IInv
  <2>3. TypeOK'
    BY <1>2, <1>4, <2>2 DEF IInv, TypeOK, Procs, LinkRows
  <2>4. ProcSound'
    BY <1>2, <1>3, <1>4, <2>2, OthersStaySound DEF IInv
  <2>5. BothAgreed' /\ ReferencedContactStays'
    BY <1>4 DEF IInv, BothAgreed, ReferencedContactStays
  <2> QED BY <2>2, <2>3, <2>4, <2>5, <2>6 DEF IInv
<1>6. CASE ~MayInsert(u, v)
  <2>1. UNCHANGED <<links, begun>>
    BY <1>6 DEF Insert
  <2>2. Passed(w)'
    BY <1>0, <1>2, <2>1 DEF Passed
  <2> QED BY <1>2, <1>3, <1>4, <2>1, <2>2, ReadingIsSound DEF IInv, TypeOK
<1> QED BY <1>5, <1>6

(* accept_partner_link and decline_partner_link. *)
LEMMA AnswerKeepsIInv ==
  ASSUME IInv, NEW w \in Workers, Accept(w) \/ Decline(w)
  PROVE  IInv'
<1> DEFINE u == proc[w].user
           v == proc[w].other
           i == proc[w].link
<1>1. RequestSound(w) /\ i \in DOMAIN links
  BY DEF IInv, ProcSound, RequestSound, Accept, Decline
<1>2. /\ proc' \in Procs /\ proc'[w].at = "idle" /\ proc'[w].since = 0
      /\ \A x \in Workers \ {w} : proc'[x] = proc[x]
  BY IdleIsSound DEF IInv, Procs, Accept, Decline
<1>3. RequestSound(w)'
  BY <1>2 DEF RequestSound
<1>4. UNCHANGED <<used, agreed, begun>>
  BY DEF Accept, Decline
<1>5. PICK status \in {"ACCEPTED", "DECLINED"} :
        links' = [links EXCEPT ![i].status = status]
  BY DEF Accept, Decline
<1>6. /\ links' \in Seq(LinkRows)
      /\ DOMAIN links' = DOMAIN links /\ Len(links') = Len(links)
      /\ \A j \in DOMAIN links :
           /\ links'[j].from = links[j].from /\ links'[j].to = links[j].to
           /\ links'[j].status = "PENDING" => links[j].status = "PENDING"
      /\ LinkSound' /\ NoStandoff'
  <2> HIDE DEF i
  <2> QED BY <1>1, <1>4, <1>5, AnswerKeepsLinks DEF IInv
<1>7. ProcSound'
  BY <1>2, <1>3, <1>4, <1>6, OthersStaySound DEF IInv
<1>10. AllPassed'
  <2>1. Len(links) \in Nat /\ Len(links) <= Len(links')
    BY <1>6 DEF IInv, TypeOK
  <2>2. Passed(w)'
    BY <1>2, <1>6, <2>1 DEF Passed
  <2> QED BY <1>2, <1>6, <2>1, <2>2, OthersStayPassed DEF IInv
<1>8. CASE Accept(w)
  <2>1. /\ <<u, v>> \in Pairs /\ <<u, v>> \in agreed
        /\ links[i].from = v /\ links[i].to = u
    BY <1>1, <1>8 DEF RequestSound, Accept
  <2>2. <<v, u>> \in Pairs /\ <<v, u>> \in agreed
    BY <1>1, <2>1, PairIsSymmetric DEF IInv, LinkSound
  <2>3. contact' = [contact EXCEPT ![<<u, v>>] = "open", ![<<v, u>>] = "open"]
    BY <1>8 DEF Accept
  <2> HIDE DEF u, v
  <2>4. /\ contact' \in [Pairs -> {"none", "open", "archived"}]
        /\ \A p \in Pairs : \/ p = <<u, v>> \/ p = <<v, u>>
                            \/ contact'[p] = contact[p]
        /\ contact'[<<u, v>>] = "open" /\ contact'[<<v, u>>] = "open"
    BY <2>1, <2>2, <2>3 DEF IInv, TypeOK
  <2>5. TypeOK'
    BY <1>2, <1>4, <1>6, <2>4 DEF IInv, TypeOK, Procs, LinkRows
  <2>6. BothAgreed'
    <3> SUFFICES ASSUME NEW p \in Pairs, contact'[p] # "none"
                 PROVE  p \in agreed /\ <<p[2], p[1]>> \in agreed
      BY <1>4 DEF BothAgreed
    <3> QED BY <2>1, <2>2, <2>4 DEF IInv, BothAgreed
  <2>7. ReferencedContactStays'
    <3> SUFFICES ASSUME NEW p \in Pairs, used[p] # {}
                 PROVE  contact'[p] # "none"
      BY <1>4 DEF ReferencedContactStays
    <3> QED BY <2>4 DEF IInv, ReferencedContactStays
  <2> QED BY <1>6, <1>7, <1>10, <2>5, <2>6, <2>7 DEF IInv
<1>9. CASE Decline(w)
  <2>1. UNCHANGED contact
    BY <1>9 DEF Decline
  <2>2. TypeOK'
    BY <1>2, <1>4, <1>6, <2>1 DEF IInv, TypeOK, Procs, LinkRows
  <2>3. BothAgreed' /\ ReferencedContactStays'
    BY <1>4, <2>1 DEF IInv, BothAgreed, ReferencedContactStays
  <2> QED BY <1>6, <1>7, <1>10, <2>2, <2>3 DEF IInv
<1> QED BY <1>8, <1>9

(* The deletion of a contact and the rows that come to refer to it. *)
LEMMA ContactKeepsIInv ==
  ASSUME IInv, NEW w \in Workers, Archive(w) \/ Delete(w) \/ Use(w)
  PROVE  IInv'
<1>1. UNCHANGED <<links, agreed, begun>> /\ Len(links) \in Nat
  BY DEF Archive, Delete, Use, IInv, TypeOK
<1>2. LinkSound' /\ NoStandoff'
  BY <1>1 DEF IInv, LinkSound, NoStandoff
<1>3. CASE Archive(w) \/ Delete(w)
  <2> DEFINE p == <<proc[w].user, proc[w].other>>
  <2>1. p \in Pairs /\ UNCHANGED used
    BY <1>3 DEF IInv, ProcSound, RequestSound, Archive, Delete
  <2>2. /\ proc' \in Procs /\ proc'[w].at = "idle" /\ proc'[w].since = 0
        /\ \A x \in Workers \ {w} : proc'[x] = proc[x]
    BY <1>3, IdleIsSound DEF IInv, Procs, Archive, Delete
  <2>3. RequestSound(w)'
    BY <2>2 DEF RequestSound
  <2>4. ProcSound'
    BY <1>1, <2>2, <2>3, OthersStaySound DEF IInv
  <2>9. AllPassed'
    <3>1. Passed(w)' /\ links \in Seq(LinkRows)
      BY <1>1, <2>2 DEF Passed, IInv, TypeOK, LinkRows
    <3> QED BY <1>1, <2>2, <3>1, OthersStayPassed DEF IInv
  <2>5. \/ contact' = contact
        \/ contact' = [contact EXCEPT ![p] = IF @ = "none" THEN @ ELSE "archived"]
        \/ used[p] = {} /\ contact' = [contact EXCEPT ![p] = "none"]
    BY <1>3 DEF Archive, Delete, MayDelete
  <2> HIDE DEF p
  <2>6. /\ contact' \in [Pairs -> {"none", "open", "archived"}]
        /\ \A q \in Pairs : contact[q] = "none" => contact'[q] = "none"
        /\ \A q \in Pairs : contact'[q] = "none" => contact[q] = "none" \/ used[q] = {}
    BY <2>1, <2>5 DEF IInv, TypeOK
  <2>7. TypeOK'
    BY <1>1, <2>1, <2>2, <2>6 DEF IInv, TypeOK, Procs
  <2>8. BothAgreed' /\ ReferencedContactStays'
    BY <1>1, <2>1, <2>6 DEF IInv, BothAgreed, ReferencedContactStays
  <2> QED BY <1>2, <2>4, <2>7, <2>8, <2>9 DEF IInv
<1>4. CASE Use(w)
  <2>1. UNCHANGED <<contact, proc>>
    BY <1>4 DEF Use
  <2>2. PICK p \in Pairs, kind \in {"participation", "settlement"} :
          \/ contact[p] # "none" /\ used' = [used EXCEPT ![p] = @ \cup {kind}]
          \/ used' = [used EXCEPT ![p] = @ \ {kind}]
    BY <1>4 DEF Use
  <2>3. /\ used' \in [Pairs -> SUBSET {"participation", "settlement"}]
        /\ \A q \in Pairs : used'[q] # {} => used[q] # {} \/ contact[q] # "none"
    <3>1. used \in [Pairs -> SUBSET {"participation", "settlement"}]
      BY DEF IInv, TypeOK
    <3>2. CASE /\ contact[p] # "none"
               /\ used' = [used EXCEPT ![p] = @ \cup {kind}]
      BY <3>1, <3>2
    <3>3. CASE used' = [used EXCEPT ![p] = @ \ {kind}]
      BY <3>1, <3>3
    <3> QED BY <2>2, <3>2, <3>3
  <2>4. TypeOK'
    BY <1>1, <2>1, <2>3 DEF IInv, TypeOK
  <2>5. ProcSound'
    BY <1>1, <2>1 DEF IInv, ProcSound, RequestSound
  <2>7. AllPassed'
    BY <1>1, <2>1 DEF IInv, AllPassed, Passed
  <2>6. BothAgreed' /\ ReferencedContactStays'
    BY <1>1, <2>1, <2>3 DEF IInv, BothAgreed, ReferencedContactStays
  <2> QED BY <1>2, <2>4, <2>5, <2>6, <2>7 DEF IInv
<1> QED BY <1>3, <1>4

(* A server with no links, contacts or references is sound.                *)
LEMMA InitSound == Init => IInv
<1> SUFFICES ASSUME Init PROVE IInv
  OBVIOUS
<1>1. links = <<>> /\ links \in Seq(LinkRows) /\ DOMAIN links = {}
  BY DEF Init
<1>2. TypeOK
  BY <1>1 DEF Init, TypeOK, Idle, LinkRows
<1>3. ProcSound
  BY DEF Init, ProcSound, RequestSound, Idle
<1>4. LinkSound /\ NoStandoff
  BY <1>1 DEF LinkSound, NoStandoff
<1>6. AllPassed
  BY <1>1 DEF Init, AllPassed, Passed, Idle
<1>5. BothAgreed /\ ReferencedContactStays
  BY DEF Init, BothAgreed, ReferencedContactStays
<1> QED BY <1>2, <1>3, <1>4, <1>5, <1>6 DEF IInv

-----------------------------------------------------------------------------
(* The invariant is inductive. *)
LEMMA SpecSound == Spec => []IInv
<1>1. Init => IInv
  BY InitSound
<1>2. IInv /\ [Next]_vars => IInv'
  <2> SUFFICES ASSUME IInv, [Next]_vars PROVE IInv'
    OBVIOUS
  <2>1. CASE Next
    <3>1. PICK w \in Workers :
            \/ Send(w) \/ LookOpposite(w) \/ LookExisting(w) \/ LookLinked(w)
            \/ Insert(w) \/ LoadAnswer(w) \/ Accept(w) \/ Decline(w)
            \/ LoadDelete(w) \/ Archive(w) \/ Delete(w) \/ Use(w)
      BY <2>1 DEF Next
    <3> QED BY <3>1, SendKeepsIInv, LoadKeepsIInv, InsertKeepsIInv,
               AnswerKeepsIInv, ContactKeepsIInv
  <2>2. CASE UNCHANGED vars
    BY <2>2 DEF vars, IInv, TypeOK, ProcSound, RequestSound, AllPassed, Passed,
                LinkSound, NoStandoff, BothAgreed, ReferencedContactStays
  <2> QED BY <2>1, <2>2
<1> QED BY <1>1, <1>2, PTL DEF Spec

(* The tables and what the requests carry keep their types. *)
THEOREM Typing == Spec => []TypeOK
<1>1. IInv => TypeOK
  BY DEF IInv
<1> QED BY <1>1, SpecSound, PTL

(* Nobody enters an address book unless both users asked or agreed, in     *)
(* whatever order requests, lookups and answers interleave. *)
THEOREM Consent == Spec => []BothAgreed
<1>1. IInv => BothAgreed
  BY DEF IInv
<1> QED BY <1>1, SpecSound, PTL

(* Two users never wait for each other, each with an open request, unless  *)
(* the later request had arrived before the row of the earlier one was     *)
(* there; whatever is inserted, answered or deleted in between.            *)
THEOREM NoWaitingInCircles == Spec => []NoStandoff
<1>1. IInv => NoStandoff
  BY DEF IInv
<1> QED BY <1>1, SpecSound, PTL

(* A contact that a participation or a settlement refers to is never lost, *)
(* whatever the deleting request saw when it looked. *)
THEOREM ContactSafety == Spec => []ReferencedContactStays
<1>1. IInv => ReferencedContactStays
  BY DEF IInv
<1> QED BY <1>1, SpecSound, PTL
=============================================================================
