--------------------------- MODULE RegistryProofs ---------------------------
(***************************************************************************)
(* Theorems about Registry, for any threads and names and any number of    *)
(* calls and updates.                                                      *)
(***************************************************************************)
EXTENDS Registry, BasicLemmas

Made == 1 .. Len(made)

(* The values or updates of the families there were at some moment.        *)
Moments == UNION {[1 .. n -> Nat] : n \in 0 .. Len(made)}

Lines == [family : Made, value : Nat]

(* What a thread may note at each label.                                   *)
Checking == [at : {"check", "make"}, name : Names]
Emplacing == [at : {"emplace"}, fresh : Made]
Linking == [at : {"link"}, fresh : Made, seen : SUBSET Made]
ToScrape == [at : {"serialize_lock"}, known : SUBSET Made]
InScrape == [at : {"serialize"}, known : SUBSET Made, base : Moments,
             todo : SUBSET Made, output : Seq(Lines)]
ToReset == [at : {"reset_lock"}, known : SUBSET Made, base : Moments]
InReset == [at : {"reset"}, known : SUBSET Made, base : Moments,
            todo : SUBSET Made]

States == {Idle} \cup Checking \cup Emplacing \cup Linking
            \cup ToScrape \cup InScrape \cup ToReset \cup InReset

(* The type invariant with all that a thread notes, and no value above     *)
(* what updates have made it.                                              *)
Typed ==
  /\ alone \in BOOLEAN
  /\ made \in Seq(Names)
  /\ families \subseteq Made
  /\ handles \subseteq Made
  /\ value \in [Made -> Nat]
  /\ updates \in [Made -> 0 .. MaxUpdates[alone]]
  /\ \A f \in Made : value[f] <= updates[f]
  /\ mutex \in Threads \cup {NoThread}
  /\ thread \in [Threads -> States]
  /\ calls \in 0 .. MaxCalls[alone]

(* A thread is inside the mutex exactly while it walks the families.       *)
MutexOwned == \A t \in Threads : mutex = t <=> t \in Walking

(* What a thread has noted, by the label it is at.                         *)
LEMMA StateByLabel ==
  ASSUME NEW s \in States
  PROVE  /\ s.at = "idle" => s = Idle
         /\ s.at \in {"check", "make"} => s \in Checking
         /\ s.at = "emplace" => s \in Emplacing
         /\ s.at = "link" => s \in Linking
         /\ s.at = "serialize_lock" => s \in ToScrape
         /\ s.at = "serialize" => s \in InScrape
         /\ s.at = "reset_lock" => s \in ToReset
         /\ s.at = "reset" => s \in InReset
<1>1. \/ s = Idle \/ s \in Checking \/ s \in Emplacing \/ s \in Linking
      \/ s \in ToScrape \/ s \in InScrape \/ s \in ToReset \/ s \in InReset
  BY DEF States
<1>2. Idle.at = "idle"
  BY DEF Idle
<1>3. s \in Checking => s.at \in {"check", "make"}
  BY DEF Checking
<1>4. /\ s \in Emplacing => s.at = "emplace"
      /\ s \in Linking => s.at = "link"
  BY DEF Emplacing, Linking
<1>5. /\ s \in ToScrape => s.at = "serialize_lock"
      /\ s \in InScrape => s.at = "serialize"
  BY DEF ToScrape, InScrape
<1>6. /\ s \in ToReset => s.at = "reset_lock"
      /\ s \in InReset => s.at = "reset"
  BY DEF ToReset, InReset
<1> QED
  BY <1>1, <1>2, <1>3, <1>4, <1>5, <1>6

LEMMA TypedIsTypeOK == Typed => TypeOK
<1> SUFFICES ASSUME Typed PROVE TypeOK
  OBVIOUS
<1>1. value \in [Made -> 0 .. MaxUpdates[alone]]
  <2>1. MaxUpdates[alone] \in Nat
    BY RegistryAssumption DEF Typed
  <2>2. \A f \in Made : value[f] \in 0 .. MaxUpdates[alone]
    BY <2>1 DEF Typed
  <2> QED
    BY <2>2 DEF Typed
<1>2. \A t \in Threads : thread[t] \in States
  BY DEF Typed
<1>3. ASSUME NEW t \in Walking PROVE thread[t].todo \subseteq Made
  <2>1. thread[t] \in InScrape \cup InReset
    BY <1>2, StateByLabel DEF Walking
  <2> QED
    BY <2>1 DEF InScrape, InReset
<1>4. ASSUME NEW t \in Threads,
             thread[t].at \in {"reset_lock", "serialize", "reset"}
      PROVE  thread[t].known \subseteq Made
  BY <1>2, <1>4 DEF States, Idle, Checking, Emplacing, Linking, ToScrape,
                    InScrape, ToReset, InReset
<1>5. ASSUME NEW t \in Threads,
             thread[t].at \notin {"reset_lock", "serialize", "reset"}
      PROVE  thread[t] \in {Idle} \cup Checking \cup Emplacing \cup Linking \cup ToScrape
  BY <1>2, <1>5 DEF States, ToReset, InScrape, InReset
<1>6. Idle \in [at : {"idle"}]
  BY DEF Idle
<1> QED
  BY <1>1, <1>3, <1>4, <1>5, <1>6
  DEF Typed, TypeOK, Made, Checking, Emplacing, Linking, ToScrape

(* What was noted stays true as more families are made.                    *)
LEMMA StatesGrow ==
  ASSUME made \in Seq(Names), made' \in Seq(Names), Len(made) <= Len(made')
  PROVE  States \subseteq States' /\ Made \subseteq Made'
<1>1. Made \subseteq Made'
  BY DEF Made
<1>2. Moments \subseteq Moments'
  BY DEF Moments
<1>3. Lines \subseteq Lines'
  BY <1>1 DEF Lines
<1>4. Seq(Lines) \subseteq Seq(Lines')
  BY <1>3, SeqMonotonic
<1>5. Emplacing \subseteq Emplacing' /\ Linking \subseteq Linking'
  BY <1>1 DEF Emplacing, Linking
<1>6. ToScrape \subseteq ToScrape' /\ ToReset \subseteq ToReset' /\ InReset \subseteq InReset'
  BY <1>1, <1>2 DEF ToScrape, ToReset, InReset
<1>7. InScrape \subseteq InScrape'
  BY <1>1, <1>2, <1>4 DEF InScrape
<1> QED
  BY <1>1, <1>5, <1>6, <1>7 DEF States, Checking, Idle

LEMMA TypedInit == Init => Typed
<1> SUFFICES ASSUME Init PROVE Typed
  OBVIOUS
<1>1. alone \in BOOLEAN /\ MaxCalls[alone] \in Nat /\ MaxUpdates[alone] \in Nat
  BY RegistryAssumption DEF Init
<1>2. made \in Seq(Names) /\ Made = {}
  BY DEF Init, Made
<1>3. value \in [Made -> Nat] /\ updates \in [Made -> 0 .. MaxUpdates[alone]]
  BY <1>2 DEF Init
<1>4. thread \in [Threads -> States]
  BY DEF Init, States
<1> QED
  BY <1>1, <1>2, <1>3, <1>4 DEF Init, Typed

(* A step of one thread between two of the states below.                   *)
LEMMA GotoTyped ==
  ASSUME thread \in [Threads -> States], States' = States,
         NEW t \in Threads, NEW state \in States, Goto(t, state)
  PROVE  thread' \in [Threads -> States']
BY DEF Goto

LEMMA TypedStep == Typed /\ [Next]_vars => Typed'
<1> SUFFICES ASSUME Typed, [Next]_vars PROVE Typed'
  OBVIOUS
<1> USE DEF Typed, contents, At
<1>a. MaxCalls[alone] \in Nat /\ MaxUpdates[alone] \in Nat
  BY RegistryAssumption
<1>b. made' = made => States' = States /\ Made' = Made
  BY DEF States, Emplacing, Linking, ToScrape, InScrape, ToReset, InReset,
         Checking, Moments, Lines, Made
<1>c. value \in Moments /\ updates \in Moments
  <2>1. Len(made) \in 0 .. Len(made)
    OBVIOUS
  <2>2. value \in [1 .. Len(made) -> Nat] /\ updates \in [1 .. Len(made) -> Nat]
    BY <1>a DEF Made
  <2> QED
    BY <2>1, <2>2 DEF Moments
<1>1. ASSUME NEW t \in Threads, NEW n \in Names, Create(t, n) PROVE Typed'
  <2>1. [at |-> "check", name |-> n] \in States
    BY DEF States, Checking
  <2> QED
    BY <1>1, <1>a, <1>b, <2>1, GotoTyped DEF Create, Call
<1>2. ASSUME NEW t \in Threads, Serialize(t) PROVE Typed'
  <2>1. [at |-> "serialize_lock", known |-> families] \in States
    BY DEF States, ToScrape
  <2> QED
    BY <1>2, <1>a, <1>b, <2>1, GotoTyped DEF Serialize, Call
<1>3. ASSUME NEW t \in Threads, Reset(t) PROVE Typed'
  <2>1. [at |-> "reset_lock", known |-> families, base |-> updates] \in States
    BY <1>c DEF States, ToReset
  <2> QED
    BY <1>3, <1>a, <1>b, <2>1, GotoTyped DEF Reset, Call
<1>4. ASSUME NEW t \in Threads, Check(t) PROVE Typed'
  <2>1. thread[t] \in Checking
    BY <1>4, StateByLabel DEF Check
  <2>2. Idle \in States /\ [thread[t] EXCEPT !.at = "make"] \in States
    BY <2>1 DEF States, Checking
  <2> QED
    BY <1>4, <1>b, <2>2, GotoTyped DEF Check
<1>5. ASSUME NEW t \in Threads, Make(t) PROVE Typed'
  <2>1. thread[t] \in Checking
    BY <1>5, StateByLabel DEF Make
  <2>2. thread[t].name \in Names
    BY <2>1 DEF Checking
  <2>3. /\ made' \in Seq(Names)
        /\ Len(made') = Len(made) + 1
    BY <1>5, <2>2, AppendProperties DEF Make
  <2>4. States \subseteq States' /\ Made \subseteq Made'
    BY <2>3, StatesGrow
  <2>5. Made' = 1 .. Len(made) + 1
    BY <2>3 DEF Made
  <2>6. /\ value' \in [Made' -> Nat]
        /\ \A f \in Made : value'[f] = value[f]
        /\ value'[Len(made) + 1] = 0
    <3> DEFINE Number == Nat
    <3>1. value \in [1 .. Len(made) -> Number] /\ Len(made) \in Nat /\ 0 \in Number
      BY DEF Made
    <3> HIDE DEF Number
    <3>2. Append(value, 0) =
            [i \in 1 .. Len(made) + 1 |-> IF i = Len(made) + 1 THEN 0 ELSE value[i]]
      BY ONLY <3>1, AppendExtends
    <3>3. value' = Append(value, 0)
      BY <1>5 DEF Make
    <3> QED
      BY ONLY <2>5, <3>1, <3>2, <3>3 DEF Made, Number
  <2>7. /\ updates' \in [Made' -> 0 .. MaxUpdates[alone]]
        /\ \A f \in Made : updates'[f] = updates[f]
        /\ updates'[Len(made) + 1] = 0
    <3> DEFINE Bounded == 0 .. MaxUpdates[alone]
    <3>1. updates \in [1 .. Len(made) -> Bounded] /\ Len(made) \in Nat /\ 0 \in Bounded
      BY <1>a DEF Made
    <3> HIDE DEF Bounded
    <3>2. Append(updates, 0) =
            [i \in 1 .. Len(made) + 1 |-> IF i = Len(made) + 1 THEN 0 ELSE updates[i]]
      BY ONLY <3>1, AppendExtends
    <3>3. updates' = Append(updates, 0)
      BY <1>5 DEF Make
    <3>4. /\ updates' \in [Made' -> Bounded]
          /\ \A f \in Made : updates'[f] = updates[f]
          /\ updates'[Len(made) + 1] = 0
      BY ONLY <2>5, <3>1, <3>2, <3>3 DEF Made
    <3> QED
      BY <3>4 DEF Bounded
  <2>8. \A f \in Made' : value'[f] <= updates'[f]
    <3>1. \A f \in Made' : f \in Made \/ f = Len(made) + 1
      BY <2>5 DEF Made
    <3> QED
      BY <2>6, <2>7, <3>1
  <2>9. [at |-> "emplace", fresh |-> Len(made')] \in States'
    <3>1. Len(made') \in Made'
      BY <2>3 DEF Made
    <3>2. [at |-> "emplace", fresh |-> Len(made')] \in Emplacing'
      BY <3>1 DEF Emplacing
    <3> QED
      BY <3>2 DEF States
  <2>10. thread' \in [Threads -> States']
    BY <1>5, <2>4, <2>9 DEF Make, Goto
  <2> QED
    BY <1>5, <2>3, <2>4, <2>6, <2>7, <2>8, <2>10 DEF Make
<1>6. ASSUME NEW t \in Threads, EmplaceFind(t) PROVE Typed'
  <2>1. thread[t] \in Emplacing
    BY <1>6, StateByLabel DEF EmplaceFind
  <2>2. thread[t].fresh \in Made
    BY <2>1 DEF Emplacing
  <2>3. /\ Idle \in States
        /\ [at |-> "link", fresh |-> thread[t].fresh, seen |-> families] \in States
    BY <2>2 DEF States, Linking
  <2> QED
    BY <1>6, <1>b, <2>2, <2>3, GotoTyped DEF EmplaceFind, Return
<1>7. ASSUME NEW t \in Threads, EmplaceLink(t) PROVE Typed'
  <2>1. thread[t] \in Linking
    BY <1>7, StateByLabel DEF EmplaceLink
  <2>2. thread[t].fresh \in Made
    BY <2>1 DEF Linking
  <2>3. families' \subseteq Made /\ handles' \subseteq Made
    BY <1>7, <2>2 DEF EmplaceLink, Return
  <2>4. thread' \in [Threads -> States]
    <3>1. PICK disturbed \in [Walking -> SUBSET families'] :
            thread' = [u \in Threads |->
                         IF u = t THEN Idle
                         ELSE IF u \in Walking
                           THEN [thread[u] EXCEPT !.todo = disturbed[u]]
                           ELSE thread[u]]
      BY <1>7 DEF EmplaceLink
    <3>2. ASSUME NEW u \in Walking
          PROVE  [thread[u] EXCEPT !.todo = disturbed[u]] \in States
      <4>1. thread[u] \in InScrape \cup InReset
        BY <3>2, StateByLabel DEF Walking
      <4>2. disturbed[u] \subseteq Made
        BY <2>3, <3>1, <3>2
      <4> QED
        BY <4>1, <4>2 DEF States, InScrape, InReset
    <3>3. Idle \in States /\ \A u \in Threads : thread[u] \in States
      BY DEF States
    <3> QED
      BY <3>1, <3>2, <3>3
  <2> QED
    BY <1>7, <1>b, <2>3, <2>4 DEF EmplaceLink
<1>8. ASSUME NEW t \in Threads, SerializeLock(t) PROVE Typed'
  <2>1. thread[t] \in ToScrape
    BY <1>8, StateByLabel DEF SerializeLock
  <2>2. << >> \in Seq(Lines)
    OBVIOUS
  <2>3. Scraping(t) \in States
    BY <1>c, <2>1, <2>2 DEF Scraping, States, ToScrape, InScrape
  <2> QED
    BY <1>8, <1>b, <2>3, GotoTyped DEF SerializeLock
<1>9. ASSUME NEW t \in Threads, SerializeFamily(t) PROVE Typed'
  <2>1. thread[t] \in InScrape
    BY <1>9, StateByLabel DEF SerializeFamily
  <2>2. PICK f \in thread[t].todo :
          thread' = [thread EXCEPT
                       ![t].todo = Rest(@, f),
                       ![t].output = Append(@, [family |-> f, value |-> value[f]])]
    BY <1>9 DEF SerializeFamily
  <2>3. f \in Made /\ value[f] \in Nat
    BY <2>1, <2>2 DEF InScrape
  <2>4. Append(thread[t].output, [family |-> f, value |-> value[f]]) \in Seq(Lines)
    BY <2>1, <2>3, AppendProperties DEF InScrape, Lines
  <2>5. [thread[t] EXCEPT !.todo = Rest(@, f),
                          !.output = Append(@, [family |-> f, value |-> value[f]])]
          \in States
    BY <2>1, <2>4 DEF InScrape, Rest, States
  <2>6. thread' \in [Threads -> States]
    BY <2>2, <2>5
  <2> QED
    BY <1>9, <1>b, <2>6 DEF SerializeFamily
<1>10. ASSUME NEW t \in Threads, ResetLock(t) PROVE Typed'
  <2>1. thread[t] \in ToReset
    BY <1>10, StateByLabel DEF ResetLock
  <2>2. [at |-> "reset", known |-> thread[t].known, base |-> thread[t].base,
         todo |-> families] \in States
    BY <2>1 DEF States, ToReset, InReset
  <2> QED
    BY <1>10, <1>b, <2>2, GotoTyped DEF ResetLock
<1>11. ASSUME NEW t \in Threads, ResetFamily(t) PROVE Typed'
  <2>1. thread[t] \in InReset
    BY <1>11, StateByLabel DEF ResetFamily
  <2>2. PICK f \in thread[t].todo :
          /\ thread' = [thread EXCEPT ![t].todo = Rest(@, f)]
          /\ value' = [value EXCEPT ![f] = 0]
    BY <1>11 DEF ResetFamily
  <2>3. [thread[t] EXCEPT !.todo = Rest(@, f)] \in States
    BY <2>1 DEF InReset, Rest, States
  <2>4. thread' \in [Threads -> States]
    BY <2>2, <2>3
  <2>5. /\ value' \in [Made -> Nat]
        /\ \A g \in Made : value'[g] <= updates[g]
    <3>1. \A g \in Made : updates[g] \in Nat /\ value[g] \in Nat
      BY <1>a
    <3>2. \A g \in Made : value'[g] = IF g = f THEN 0 ELSE value[g]
      BY <2>2
    <3>3. value' \in [Made -> Nat]
      BY <2>2
    <3> QED
      BY <3>1, <3>2, <3>3
  <2> QED
    BY <1>11, <1>b, <2>4, <2>5 DEF ResetFamily
<1>12. ASSUME NEW t \in Threads, WalkDone(t) PROVE Typed'
  <2>1. Idle \in States
    BY DEF States
  <2> QED
    BY <1>12, <1>b, <2>1, GotoTyped DEF WalkDone
<1>13. ASSUME NEW f \in handles, Update(f) PROVE Typed'
  <2>1. /\ value' \in [Made -> Nat]
        /\ updates' \in [Made -> 0 .. MaxUpdates[alone]]
        /\ \A g \in Made : value'[g] <= updates'[g]
    BY <1>13, <1>a DEF Update
  <2> QED
    BY <1>13, <1>b, <2>1 DEF Update
<1>14. CASE UNCHANGED vars
  BY <1>14, <1>b DEF vars
<1> QED
  BY <1>1, <1>2, <1>3, <1>4, <1>5, <1>6, <1>7, <1>8, <1>9, <1>10, <1>11, <1>12,
     <1>13, <1>14
  DEF Next, Operation, Step, Finished

LEMMA AlwaysTyped == Spec => []Typed
BY TypedInit, TypedStep, PTL DEF Spec

(* Every variable of the registry keeps a value of its kind.               *)
THEOREM TypeCorrect == Spec => []TypeOK
BY AlwaysTyped, TypedIsTypeOK, PTL

-----------------------------------------------------------------------------
(* The mutex: its owner is the one thread that walks the families.         *)

(* A step of thread t leaves the others where they are, but that a link    *)
(* may disturb what a walk has still to visit.                             *)
LEMMA OthersStay ==
  ASSUME Typed, NEW t \in Threads, Operation(t) \/ Step(t),
         NEW u \in Threads \ {t}
  PROVE  /\ thread'[u].at = thread[u].at
         /\ u \notin Walking => thread'[u] = thread[u]
         /\ ~EmplaceLink(t) => thread'[u] = thread[u]
         /\ At(u, "serialize") =>
              /\ thread'[u].known = thread[u].known
              /\ thread'[u].base = thread[u].base
              /\ thread'[u].output = thread[u].output
         /\ At(u, "reset") =>
              /\ thread'[u].known = thread[u].known
              /\ thread'[u].base = thread[u].base
<1>1. CASE EmplaceLink(t)
  <2>1. PICK disturbed \in [Walking -> SUBSET families'] :
          thread' = [v \in Threads |->
                       IF v = t THEN Idle
                       ELSE IF v \in Walking
                         THEN [thread[v] EXCEPT !.todo = disturbed[v]]
                         ELSE thread[v]]
    BY <1>1 DEF EmplaceLink
  <2>2. CASE u \in Walking
    <3>1. thread'[u] = [thread[u] EXCEPT !.todo = disturbed[u]]
      BY <2>1, <2>2
    <3>2. thread[u] \in InScrape \/ thread[u] \in InReset
      BY <2>2, StateByLabel DEF Walking, Typed
    <3>3. CASE thread[u] \in InScrape
      BY <1>1, <2>2, <3>1, <3>3 DEF InScrape, At
    <3>4. CASE thread[u] \in InReset
      BY <1>1, <2>2, <3>1, <3>4 DEF InReset, At
    <3> QED
      BY <3>2, <3>3, <3>4
  <2>3. CASE u \notin Walking
    <3>1. thread'[u] = thread[u]
      BY <2>1, <2>3
    <3> QED
      BY <3>1
  <2> QED
    BY <2>2, <2>3
<1>2. CASE ~EmplaceLink(t)
  <2>1. thread'[u] = thread[u]
    BY <1>2 DEF Typed, Operation, Step, Create, Serialize, Reset, Call, Check, Make,
                EmplaceFind, SerializeLock, SerializeFamily, ResetLock,
                ResetFamily, WalkDone, Goto
  <2> QED
    BY <2>1
<1> QED
  BY <1>1, <1>2

LEMMA MutexOwnedStep == Typed /\ MutexOwned /\ [Next]_vars => MutexOwned'
<1> SUFFICES ASSUME Typed, MutexOwned, [Next]_vars PROVE MutexOwned'
  OBVIOUS
<1>1. ASSUME NEW t \in Threads, Operation(t) \/ Step(t) PROVE MutexOwned'
  <2>1. \A u \in Threads \ {t} : u \in Walking' <=> u \in Walking
    BY <1>1, OthersStay DEF Walking
  <2>2. CASE SerializeLock(t) \/ ResetLock(t)
    <3>1. /\ mutex = NoThread /\ mutex' = t
          /\ thread'[t].at \in {"serialize", "reset"}
      BY <2>2 DEF SerializeLock, ResetLock, Goto, Scraping, Typed
    <3> QED
      BY <2>1, <3>1, RegistryAssumption DEF MutexOwned, Walking
  <2>3. CASE WalkDone(t)
    <3>1. /\ mutex = t /\ mutex' = NoThread
          /\ thread'[t].at = "idle"
      BY <2>3 DEF WalkDone, WalkOver, At, Goto, Idle, Typed, MutexOwned, Walking
    <3> QED
      BY <2>1, <3>1, RegistryAssumption DEF MutexOwned, Walking
  <2>4. CASE ~SerializeLock(t) /\ ~ResetLock(t) /\ ~WalkDone(t)
    <3>1. mutex' = mutex
      BY <1>1, <2>4 DEF Operation, Step, Create, Serialize, Reset, Call, Check, Make,
                        EmplaceFind, EmplaceLink, SerializeFamily, ResetFamily
    <3>2. thread[t] \in States
      BY DEF Typed
    <3>3. t \in Walking' <=> t \in Walking
      <4>1. CASE Operation(t) \/ Check(t) \/ Make(t) \/ EmplaceFind(t)
        BY <4>1, <3>2, StateByLabel
        DEF Operation, Create, Serialize, Reset, Call, Check, Make, EmplaceFind,
            Goto, At, Walking, Typed, Checking, Idle
      <4>2. CASE EmplaceLink(t)
        BY <4>2 DEF EmplaceLink, At, Walking, Typed, Idle
      <4>3. CASE SerializeFamily(t)
        <5>1. thread[t] \in InScrape
          BY <4>3, <3>2, StateByLabel DEF SerializeFamily, At
        <5>2. thread'[t].at = thread[t].at
          BY <4>3, <5>1 DEF SerializeFamily, Typed, InScrape
        <5> QED
          BY <5>2 DEF Walking
      <4>4. CASE ResetFamily(t)
        <5>1. thread[t] \in InReset
          BY <4>4, <3>2, StateByLabel DEF ResetFamily, At
        <5>2. thread'[t].at = thread[t].at
          BY <4>4, <5>1 DEF ResetFamily, Typed, InReset
        <5> QED
          BY <5>2 DEF Walking
      <4> QED
        BY <1>1, <2>4, <4>1, <4>2, <4>3, <4>4 DEF Step
    <3> QED
      BY <2>1, <3>1, <3>3 DEF MutexOwned
  <2> QED
    BY <2>2, <2>3, <2>4
<1>2. ASSUME NEW f \in handles, Update(f) PROVE MutexOwned'
  BY <1>2 DEF Update, MutexOwned, Walking
<1>3. CASE UNCHANGED vars
  BY <1>3 DEF vars, MutexOwned, Walking
<1> QED
  BY <1>1, <1>2, <1>3 DEF Next, Finished

(* At most one thread walks the families, and it holds the mutex.          *)
THEOREM MutexIsOwned == Spec => []MutexOwned
<1>1. Init => MutexOwned
  BY RegistryAssumption DEF Init, MutexOwned, Walking, Idle
<1> QED
  BY <1>1, MutexOwnedStep, AlwaysTyped, PTL DEF Spec

-----------------------------------------------------------------------------
(* A scrape and the values under it, whatever the callers do.              *)

(* While a scrape holds the mutex no value is below what it was when the   *)
(* scrape locked it, so no line is either.                                 *)
Whole(t) ==
  LET base == thread[t].base
      output == thread[t].output
  IN  /\ \A f \in DOMAIN base : base[f] <= value[f]
      /\ \A i \in 1 .. Len(output) :
           output[i].family \in DOMAIN base => output[i].value >= base[output[i].family]

NotTorn == \A t \in Threads : At(t, "serialize") => Whole(t)

LEMMA NotTornIsScrapeNotTorn == NotTorn => ScrapeNotTorn
BY DEF NotTorn, Whole, ScrapeNotTorn

(* The moment a thread has noted covers families that are made.            *)
LEMMA BaseMade ==
  ASSUME Typed, NEW t \in Threads,
         thread[t].at \in {"serialize", "reset", "reset_lock"}
  PROVE  /\ DOMAIN thread[t].base \subseteq Made
         /\ \A f \in DOMAIN thread[t].base : thread[t].base[f] \in Nat
<1>1. thread[t] \in InScrape \/ thread[t] \in InReset \/ thread[t] \in ToReset
  BY StateByLabel DEF Typed
<1>2. thread[t].base \in Moments
  BY <1>1 DEF InScrape, InReset, ToReset
<1>3. PICK n \in 0 .. Len(made) : thread[t].base \in [1 .. n -> Nat]
  BY <1>2 DEF Moments
<1>4. Len(made) \in Nat
  BY DEF Typed
<1> QED
  BY <1>3, <1>4 DEF Made

(* Values that do not fall keep a scrape whole.                            *)
LEMMA RiseKeepsWhole ==
  ASSUME Typed, NEW u \in Threads, At(u, "serialize"), Whole(u),
         \A f \in Made : value'[f] \in Nat /\ value'[f] >= value[f],
         thread'[u].base = thread[u].base,
         thread'[u].output = thread[u].output
  PROVE  Whole(u)'
<1>1. ASSUME NEW f \in DOMAIN thread[u].base PROVE thread[u].base[f] <= value'[f]
  <2>1. f \in Made /\ thread[u].base[f] \in Nat /\ value[f] \in Nat
    BY BaseMade DEF Typed, At
  <2>2. thread[u].base[f] <= value[f]
    BY DEF Whole
  <2> QED
    BY <2>1, <2>2
<1> QED
  BY <1>1 DEF Whole

(* What a step does to the values of the families made before it.          *)
LEMMA ValuesRise ==
  ASSUME Typed, [Next]_vars, \A t \in Threads : ~ResetFamily(t)
  PROVE  \A f \in Made : value'[f] \in Nat /\ value'[f] >= value[f]
<1>0. \A f \in Made : value[f] \in Nat
  BY DEF Typed
<1>1. CASE \E t \in Threads : Make(t)
  <2> DEFINE Number == Nat
  <2>1. value \in [1 .. Len(made) -> Number] /\ Len(made) \in Nat /\ 0 \in Number
    BY DEF Typed, Made
  <2>2. value' = Append(value, 0)
    BY <1>1 DEF Make
  <2> HIDE DEF Number
  <2>3. Append(value, 0) =
          [i \in 1 .. Len(made) + 1 |-> IF i = Len(made) + 1 THEN 0 ELSE value[i]]
    BY ONLY <2>1, AppendExtends
  <2>4. \A f \in Made : value'[f] = value[f]
    BY ONLY <2>1, <2>2, <2>3 DEF Made
  <2> QED
    BY <1>0, <2>4
<1>2. CASE \E g \in handles : Update(g)
  <2>1. PICK g \in handles : value' = [value EXCEPT ![g] = @ + 1]
    BY <1>2 DEF Update
  <2>2. \A f \in Made : value'[f] = IF f = g THEN value[f] + 1 ELSE value[f]
    BY <2>1 DEF Typed
  <2> QED
    BY <1>0, <2>2
<1>3. CASE ~ (\E t \in Threads : Make(t)) /\ ~ (\E g \in handles : Update(g))
  <2>1. value' = value
    BY <1>3 DEF Next, Operation, Step, Finished, vars, Create, Serialize, Reset, Call,
                Check, EmplaceFind, EmplaceLink, SerializeLock, SerializeFamily,
                ResetLock, WalkDone
  <2> QED
    BY <1>0, <2>1
<1> QED
  BY <1>1, <1>2, <1>3

LEMMA NotTornStep ==
  Typed /\ MutexOwned /\ NotTorn /\ [Next]_vars => NotTorn'
<1> SUFFICES ASSUME Typed, MutexOwned, NotTorn, [Next]_vars,
                    NEW u \in Threads, At(u, "serialize")'
             PROVE  Whole(u)'
  BY DEF NotTorn
<1>1. ASSUME At(u, "serialize"),
             thread'[u].base = thread[u].base,
             thread'[u].output = thread[u].output
      PROVE  Whole(u)'
  <2>1. \A t \in Threads : ~ResetFamily(t)
    BY <1>1 DEF ResetFamily, At, MutexOwned, Walking
  <2> QED
    BY <1>1, <2>1, ValuesRise, RiseKeepsWhole DEF NotTorn
<1>2. ASSUME NEW t \in Threads, Operation(t) \/ Step(t), t # u PROVE Whole(u)'
  <2>1. At(u, "serialize")
    BY <1>2, OthersStay DEF At
  <2> QED
    BY <1>1, <1>2, <2>1, OthersStay
<1>3. CASE SerializeLock(u)
  <2>1. /\ thread'[u].base = value /\ thread'[u].output = << >> /\ value' = value
    BY <1>3 DEF SerializeLock, Goto, Scraping, Typed
  <2>2. \A f \in Made : value[f] <= value[f]
    BY DEF Typed
  <2> QED
    BY <2>1, <2>2 DEF Whole, Typed
<1>4. CASE SerializeFamily(u)
  <2>1. At(u, "serialize") /\ thread[u] \in InScrape
    BY <1>4, StateByLabel DEF SerializeFamily, At, Typed
  <2>2. PICK f \in thread[u].todo :
          thread' = [thread EXCEPT
                       ![u].todo = Rest(@, f),
                       ![u].output = Append(@, [family |-> f, value |-> value[f]])]
    BY <1>4 DEF SerializeFamily
  <2> DEFINE line == [family |-> f, value |-> value[f]]
  <2>3. /\ thread'[u].base = thread[u].base
        /\ thread'[u].output = Append(thread[u].output, line)
        /\ value' = value
    BY <1>4, <2>1, <2>2 DEF SerializeFamily, Typed, InScrape
  <2>4. f \in Made /\ value[f] \in Nat
    BY <2>1 DEF InScrape, Typed
  <2>5. thread[u].output \in Seq(Lines) /\ line \in Lines
    BY <2>1, <2>4 DEF InScrape, Lines
  <2>6. /\ Len(thread'[u].output) = Len(thread[u].output) + 1
        /\ \A i \in 1 .. Len(thread[u].output) :
             thread'[u].output[i] = thread[u].output[i]
        /\ thread'[u].output[Len(thread[u].output) + 1] = line
    BY <2>3, <2>5, AppendProperties
  <2>7. Whole(u)
    BY <2>1 DEF NotTorn
  <2>8. f \in DOMAIN thread[u].base => value[f] >= thread[u].base[f]
    BY <2>1, <2>4, <2>7, BaseMade DEF Whole, At
  <2>9. ASSUME NEW i \in 1 .. Len(thread'[u].output),
               thread'[u].output[i].family \in DOMAIN thread[u].base
        PROVE  thread'[u].output[i].value >= thread[u].base[thread'[u].output[i].family]
    <3>1. Len(thread[u].output) \in Nat
      BY <2>5
    <3>2. CASE i = Len(thread[u].output) + 1
      BY <2>6, <2>8, <2>9, <3>2
    <3>3. CASE i \in 1 .. Len(thread[u].output)
      BY <2>6, <2>7, <2>9, <3>3 DEF Whole
    <3> QED
      BY <2>6, <3>1, <3>2, <3>3
  <2> QED
    BY <2>3, <2>7, <2>9 DEF Whole
<1>5. CASE (Operation(u) \/ Step(u)) /\ ~SerializeLock(u) /\ ~SerializeFamily(u)
  <2>1. thread[u] \in States
    BY DEF Typed
  <2>2. thread'[u].at # "serialize"
    <3>1. CASE Operation(u) \/ Check(u) \/ Make(u) \/ EmplaceFind(u)
      BY <3>1, <2>1, StateByLabel
      DEF Operation, Create, Serialize, Reset, Call, Check, Make, EmplaceFind,
          Goto, At, Typed, Checking, Idle
    <3>2. CASE EmplaceLink(u) \/ ResetLock(u) \/ WalkDone(u)
      BY <3>2 DEF EmplaceLink, ResetLock, WalkDone, Goto, Typed, Idle
    <3>3. CASE ResetFamily(u)
      <4>1. thread[u] \in InReset
        BY <3>3, <2>1, StateByLabel DEF ResetFamily, At
      <4> QED
        BY <3>3, <4>1 DEF ResetFamily, Typed, InReset
    <3> QED
      BY <1>5, <3>1, <3>2, <3>3 DEF Step
  <2> QED
    BY <2>2 DEF At
<1>6. CASE (\E f \in handles : Update(f)) \/ UNCHANGED vars
  <2>1. thread' = thread
    BY <1>6 DEF Update, vars
  <2> QED
    BY <1>1, <2>1 DEF At
<1> QED
  BY <1>2, <1>3, <1>4, <1>5, <1>6 DEF Next, Finished

(* Whatever is created, updated and reset beside it, a scrape of the       *)
(* registry never shows a reset half done (registry.cpp:82): the reset     *)
(* takes the same mutex.                                                   *)
THEOREM ScrapesNotTorn == Spec => []ScrapeNotTorn
<1>1. Init => NotTorn
  BY DEF Init, NotTorn, At, Idle
<1> QED
  BY <1>1, NotTornStep, NotTornIsScrapeNotTorn, AlwaysTyped, MutexIsOwned, PTL DEF Spec

-----------------------------------------------------------------------------
(* Programs that keep to the discipline.                                   *)

(* No call runs beside one that creates a family.                          *)
Exclusive ==
  alone => \A t \in Creating : \A u \in Threads \ {t} : At(u, "idle")

(* A family on its way into _families is not there yet and has a name that *)
(* none there has.                                                         *)
Fresh(t) ==
  /\ At(t, "make") => ~Exists(thread[t].name)
  /\ thread[t].at \in {"emplace", "link"} =>
       thread[t].fresh \notin families /\ ~Exists(made[thread[t].fresh])
  /\ At(t, "link") => thread[t].seen = families

Registered ==
  alone =>
    /\ handles \subseteq families
    /\ \A f, g \in families : made[f] = made[g] => f = g
    /\ \A t \in Threads : Fresh(t)

LEMMA RegisteredIsUnique == Typed /\ Registered => OneCreatePerName /\ HandlesRegistered
BY DEF Registered, OneCreatePerName, NamesUnique, HandlesRegistered

LEMMA AloneFixed == [Next]_vars => alone' = alone
<1>1. ASSUME NEW t \in Threads, Operation(t) PROVE alone' = alone
  BY <1>1 DEF Operation, Create, Serialize, Reset, Call, contents
<1>2. ASSUME NEW t \in Threads, Step(t) PROVE alone' = alone
  BY <1>2 DEF Step, contents, Check, Make, EmplaceFind, EmplaceLink, SerializeLock,
              SerializeFamily, ResetLock, ResetFamily, WalkDone
<1> QED
  BY <1>1, <1>2 DEF Next, Finished, vars, contents, Update

LEMMA ExclusiveStep == Typed /\ Exclusive /\ [Next]_vars => Exclusive'
<1> SUFFICES ASSUME Typed, Exclusive, [Next]_vars, alone,
                    NEW t \in Threads, t \in Creating',
                    NEW u \in Threads \ {t}
             PROVE  thread'[u].at = "idle"
  BY AloneFixed DEF Exclusive, Creating, At
<1>1. ASSUME NEW v \in Threads, Operation(v) \/ Step(v) PROVE thread'[u].at = "idle"
  <2>1. CASE v # t
    <3>1. t \in Creating
      BY <1>1, <2>1, OthersStay DEF Creating
    <3>2. At(v, "idle")
      BY <2>1, <3>1 DEF Exclusive
    <3>3. CASE Operation(v)
      <4>1. Busy # {} /\ Creating # {}
        BY <3>1 DEF Busy, Creating, At
      <4> QED
        BY <3>3, <4>1 DEF Operation, Create, Serialize, Reset, Call
    <3>4. CASE Step(v)
      BY <3>2, <3>4 DEF Step, At, Check, Make, EmplaceFind, EmplaceLink, SerializeLock,
                        SerializeFamily, ResetLock, ResetFamily, WalkDone, WalkOver
    <3> QED
      BY <1>1, <3>3, <3>4
  <2>2. CASE v = t /\ t \in Creating
    <3>1. At(u, "idle") /\ u \notin Walking
      BY <2>2 DEF Exclusive, At, Walking
    <3> QED
      BY <1>1, <2>2, <3>1, OthersStay DEF At
  <2>3. CASE v = t /\ t \notin Creating
    <3>1. \E n \in Names : Create(t, n)
      <4>1. thread[t] \in States
        BY DEF Typed
      <4>2. CASE Serialize(t) \/ Reset(t)
        <5>1. CASE Serialize(t)
          BY <5>1 DEF Serialize, Call, Goto, Typed, Creating
        <5>2. CASE Reset(t)
          BY <5>2 DEF Reset, Call, Goto, Typed, Creating
        <5> QED
          BY <4>2, <5>1, <5>2
      <4>3. CASE Step(t)
        <5>1. CASE Check(t) \/ Make(t) \/ EmplaceFind(t) \/ EmplaceLink(t)
          BY <2>3, <5>1 DEF Check, Make, EmplaceFind, EmplaceLink, Creating, At
        <5>2. CASE SerializeLock(t) \/ ResetLock(t) \/ WalkDone(t)
          BY <5>2 DEF SerializeLock, ResetLock, WalkDone, Scraping, Idle, Goto, Typed,
                      Creating
        <5>3. CASE SerializeFamily(t)
          <6>1. thread[t] \in InScrape
            BY <5>3, <4>1, StateByLabel DEF SerializeFamily, At
          <6>2. thread'[t].at = thread[t].at
            BY <5>3, <6>1 DEF SerializeFamily, Typed, InScrape
          <6> QED
            BY <2>3, <6>2 DEF Creating
        <5>4. CASE ResetFamily(t)
          <6>1. thread[t] \in InReset
            BY <5>4, <4>1, StateByLabel DEF ResetFamily, At
          <6>2. thread'[t].at = thread[t].at
            BY <5>4, <6>1 DEF ResetFamily, Typed, InReset
          <6> QED
            BY <2>3, <6>2 DEF Creating
        <5> QED
          BY <4>3, <5>1, <5>2, <5>3, <5>4 DEF Step
      <4> QED
        BY <1>1, <2>3, <4>2, <4>3 DEF Operation
    <3>2. Busy = {}
      BY <3>1 DEF Create, Call
    <3>3. At(u, "idle") /\ u \notin Walking
      BY <3>2 DEF Busy, At, Walking
    <3> QED
      BY <1>1, <2>3, <3>3, OthersStay DEF At
  <2> QED
    BY <2>1, <2>2, <2>3
<1>2. CASE (\E f \in handles : Update(f)) \/ UNCHANGED vars
  <2>1. thread' = thread
    BY <1>2 DEF Update, vars
  <2> QED
    BY <2>1 DEF Exclusive, Creating, At
<1> QED
  BY <1>1, <1>2 DEF Next, Finished

LEMMA AlwaysExclusive == Spec => []Exclusive
<1>1. Init => Exclusive
  BY DEF Init, Exclusive, Creating, Idle
<1> QED
  BY <1>1, ExclusiveStep, AlwaysTyped, PTL DEF Spec

(* What a step does to the families, seen from a thread that is not idle.  *)
LEMMA RegisteredStep ==
  Typed /\ Exclusive /\ Registered /\ [Next]_vars => Registered'
<1> SUFFICES ASSUME Typed, Exclusive, Registered, [Next]_vars, alone PROVE Registered'
  BY AloneFixed DEF Registered
<1>a. /\ handles \subseteq families
      /\ \A f, g \in families : made[f] = made[g] => f = g
      /\ \A t \in Threads : Fresh(t)
  BY DEF Registered
(* A step that neither makes nor links a family, after which the thread    *)
(* that has made it has a fresh one as before.                             *)
<1>b. ASSUME made' = made, families' = families, handles' \subseteq families,
             \A t \in Threads : Fresh(t)'
      PROVE  Registered'
  BY <1>a, <1>b DEF Registered
<1>c. ASSUME made' = made, families' = families, NEW u \in Threads,
             thread'[u] = thread[u]
      PROVE  Fresh(u)'
  BY <1>a, <1>c DEF Fresh, At, Exists
<1>d. ASSUME NEW t \in Threads, Operation(t) \/ Step(t), ~EmplaceLink(t),
             NEW u \in Threads \ {t}
      PROVE  thread'[u] = thread[u]
  BY <1>d, OthersStay
<1>1. ASSUME NEW t \in Threads, Operation(t) PROVE Registered'
  <2>1. thread'[t].at \in {"check", "serialize_lock", "reset_lock"}
    <3>1. CASE \E n \in Names : Create(t, n)
      BY <3>1 DEF Create, Call, Goto, Typed
    <3>2. CASE Serialize(t)
      BY <3>2 DEF Serialize, Call, Goto, Typed
    <3>3. CASE Reset(t)
      BY <3>3 DEF Reset, Call, Goto, Typed
    <3> QED
      BY <1>1, <3>1, <3>2, <3>3 DEF Operation
  <2>2. made' = made /\ families' = families /\ handles' = handles /\ At(t, "idle")
    BY <1>1 DEF Operation, Create, Serialize, Reset, Call, contents
  <2>3. Fresh(t)'
    BY <2>1 DEF Fresh, At
  <2>4. ~EmplaceLink(t)
    BY <2>2 DEF EmplaceLink, At
  <2> QED
    BY <1>1, <1>a, <1>b, <1>c, <1>d, <2>2, <2>3, <2>4
<1>2. ASSUME NEW t \in Threads, Check(t) PROVE Registered'
  <2>1. made' = made /\ families' = families /\ handles' = handles
    BY <1>2 DEF Check, contents
  <2>2. thread[t] \in Checking
    BY <1>2, StateByLabel DEF Check, At, Typed
  <2>3. Fresh(t)'
    <3>1. CASE Exists(thread[t].name)
      BY <1>2, <3>1 DEF Check, Goto, Typed, Idle, Fresh, At
    <3>2. CASE ~Exists(thread[t].name)
      <4>1. thread'[t] = [thread[t] EXCEPT !.at = "make"]
        BY <1>2, <3>2 DEF Check, Goto, Typed
      <4>2. thread'[t].at = "make" /\ thread'[t].name = thread[t].name
        BY <2>2, <4>1 DEF Checking
      <4> QED
        BY <2>1, <3>2, <4>2 DEF Fresh, At, Exists
    <3> QED
      BY <3>1, <3>2
  <2>4. Step(t) /\ ~EmplaceLink(t)
    BY <1>2 DEF Step, Check, EmplaceLink, At
  <2> QED
    BY <1>a, <1>b, <1>c, <1>d, <2>1, <2>3, <2>4
<1>3. ASSUME NEW t \in Threads, Make(t) PROVE Registered'
  <2>1. thread[t] \in Checking /\ t \in Creating
    BY <1>3, StateByLabel DEF Make, At, Typed, Creating
  <2>2. thread[t].name \in Names
    BY <2>1 DEF Checking
  <2>3. /\ Len(made') = Len(made) + 1 /\ Len(made) \in Nat
        /\ \A f \in Made : made'[f] = made[f]
        /\ made'[Len(made')] = thread[t].name
    BY <1>3, <2>2, AppendProperties DEF Make, Typed, Made
  <2>4. /\ families' = families /\ handles' = handles
        /\ thread'[t].at = "emplace" /\ thread'[t].fresh = Len(made')
    BY <1>3 DEF Make, Goto, Typed
  <2>5. Len(made') \notin families
    BY <2>3 DEF Typed, Made
  <2>6. ~Exists(thread[t].name)
    BY <1>3, <1>a DEF Fresh, Make
  <2>7. Fresh(t)'
    <3>1. \A f \in families : made'[f] # made'[Len(made')]
      BY <2>3, <2>6 DEF Exists, Typed
    <3> QED
      BY <2>4, <2>5, <3>1 DEF Fresh, At, Exists
  <2>8. ASSUME NEW u \in Threads \ {t} PROVE Fresh(u)'
    <3>1. At(u, "idle") /\ ~EmplaceLink(t) /\ Step(t)
      BY <1>3, <2>1 DEF Exclusive, Make, EmplaceLink, At, Step
    <3>2. thread'[u].at = "idle"
      BY <1>d, <3>1 DEF At
    <3> QED
      BY <3>2 DEF Fresh, At
  <2>9. \A f, g \in families : made'[f] = made'[g] => f = g
    BY <1>a, <2>3 DEF Typed
  <2> QED
    BY <1>a, <2>4, <2>7, <2>8, <2>9 DEF Registered
<1>4. ASSUME NEW t \in Threads, EmplaceFind(t) PROVE Registered'
  <2>1. ~Exists(made[thread[t].fresh]) /\ thread[t].fresh \notin families
    BY <1>4, <1>a DEF EmplaceFind, Fresh, At
  <2>2. /\ made' = made /\ families' = families /\ handles' = handles
        /\ thread'[t] = [at |-> "link", fresh |-> thread[t].fresh, seen |-> families]
    BY <1>4, <2>1 DEF EmplaceFind, Goto, Typed
  <2>3. Fresh(t)'
    BY <2>1, <2>2 DEF Fresh, At, Exists
  <2>4. Step(t) /\ ~EmplaceLink(t)
    BY <1>4 DEF Step, EmplaceFind, EmplaceLink, At
  <2> QED
    BY <1>a, <1>b, <1>c, <1>d, <2>2, <2>3, <2>4
<1>5. ASSUME NEW t \in Threads, EmplaceLink(t) PROVE Registered'
  <2>1. /\ thread[t].seen = families
        /\ ~Exists(made[thread[t].fresh])
        /\ t \in Creating
    BY <1>5, <1>a DEF EmplaceLink, Fresh, At, Creating
  <2>2. /\ families' = families \cup {thread[t].fresh}
        /\ handles' = handles \cup {thread[t].fresh}
        /\ made' = made
    BY <1>5, <2>1 DEF EmplaceLink, Return
  <2>3. \A f, g \in families' : made'[f] = made'[g] => f = g
    BY <1>a, <2>1, <2>2 DEF Exists
  <2>4. ASSUME NEW u \in Threads PROVE Fresh(u)'
    <3>1. thread'[u].at = "idle"
      <4>1. CASE u = t
        BY <1>5, <4>1 DEF EmplaceLink, Idle
      <4>2. CASE u # t
        <5>1. At(u, "idle") /\ Step(t)
          BY <1>5, <2>1, <4>2 DEF Exclusive, Step
        <5> QED
          BY <4>2, <5>1, OthersStay DEF At
      <4> QED
        BY <4>1, <4>2
    <3> QED
      BY <3>1 DEF Fresh, At
  <2> QED
    BY <1>a, <2>2, <2>3, <2>4 DEF Registered
<1>6. ASSUME NEW t \in Threads,
             SerializeLock(t) \/ SerializeFamily(t) \/ ResetLock(t) \/ ResetFamily(t)
               \/ WalkDone(t)
      PROVE  Registered'
  <2>1. made' = made /\ families' = families /\ handles' = handles
    BY <1>6 DEF SerializeLock, SerializeFamily, ResetLock, ResetFamily, WalkDone, contents
  <2>2. Step(t) /\ ~EmplaceLink(t)
    BY <1>6 DEF Step, SerializeLock, SerializeFamily, ResetLock, ResetFamily, WalkDone,
                WalkOver, EmplaceLink, At
  <2>3. thread'[t].at \in {"serialize", "reset", "idle"}
    <3>1. CASE SerializeLock(t) \/ ResetLock(t) \/ WalkDone(t)
      BY <3>1 DEF SerializeLock, ResetLock, WalkDone, Goto, Scraping, Idle, Typed
    <3>2. CASE SerializeFamily(t)
      <4>1. thread[t] \in InScrape
        BY <3>2, StateByLabel DEF SerializeFamily, At, Typed
      <4> QED
        BY <3>2, <4>1 DEF SerializeFamily, Typed, InScrape
    <3>3. CASE ResetFamily(t)
      <4>1. thread[t] \in InReset
        BY <3>3, StateByLabel DEF ResetFamily, At, Typed
      <4> QED
        BY <3>3, <4>1 DEF ResetFamily, Typed, InReset
    <3> QED
      BY <1>6, <3>1, <3>2, <3>3
  <2>4. Fresh(t)'
    BY <2>3 DEF Fresh, At
  <2> QED
    BY <1>a, <1>b, <1>c, <1>d, <2>1, <2>2, <2>4
<1>7. CASE (\E f \in handles : Update(f)) \/ UNCHANGED vars
  <2>1. thread' = thread /\ made' = made /\ families' = families /\ handles' = handles
    BY <1>7 DEF Update, vars, contents
  <2> QED
    BY <1>a, <1>b, <1>c, <2>1
<1> QED
  BY <1>1, <1>2, <1>3, <1>4, <1>5, <1>6, <1>7 DEF Next, Step, Finished

LEMMA AlwaysRegistered == Spec => []Registered
<1>1. Init => Registered
  BY DEF Init, Registered, Fresh, At, Idle
<1> QED
  BY <1>1, RegisteredStep, AlwaysTyped, AlwaysExclusive, PTL DEF Spec

(* Where callers create families beside no other call, of all the calls    *)
(* that create a name one returns a family (registry.hpp:32): check and    *)
(* insertion are then one.                                                 *)
THEOREM OneCreate == Spec => []OneCreatePerName
BY AlwaysTyped, AlwaysRegistered, RegisteredIsUnique, PTL

(* Where callers create families beside no other call, nobody is left with *)
(* a family that no scrape shows.                                          *)
THEOREM HandlesAreRegistered == Spec => []HandlesRegistered
BY AlwaysTyped, AlwaysRegistered, RegisteredIsUnique, PTL

-----------------------------------------------------------------------------
(* What the walks of disciplined callers achieve.                          *)

(* A scrape has printed or has still to visit each family it has known,    *)
(* and prints none twice.                                                  *)
Printed(t) ==
  LET output == thread[t].output
      Line == 1 .. Len(output)
  IN  /\ \A f \in thread[t].known :
           f \in thread[t].todo \/ \E i \in Line : output[i].family = f
      /\ \A i \in Line : output[i].family \notin thread[t].todo
      /\ \A i, j \in Line : output[i].family = output[j].family => i = j

(* A reset has noted the updates made before it was called ...             *)
Noted(t) ==
  \A f \in thread[t].known :
    f \in DOMAIN thread[t].base /\ thread[t].base[f] <= updates[f]

(* ... and has forgotten them or has still to visit the family.            *)
Forgotten(t) ==
  \A f \in thread[t].known :
    f \in thread[t].todo \/ value[f] <= updates[f] - thread[t].base[f]

Progress(t) ==
  /\ thread[t].at \in {"serialize_lock", "reset_lock"} => thread[t].known \subseteq families
  /\ At(t, "serialize") => Printed(t)
  /\ thread[t].at \in {"reset_lock", "reset"} => Noted(t)
  /\ At(t, "reset") => Forgotten(t)

Complete == alone => \A t \in Threads : Progress(t)

LEMMA CompleteIsScrapeComplete == Typed /\ Complete => ScrapeComplete
<1> SUFFICES ASSUME Typed, Complete, alone, NEW t \in Threads, WalkOver(t, "serialize"),
                    NEW f \in thread[t].known
             PROVE  Cardinality({i \in 1 .. Len(thread[t].output) :
                                   thread[t].output[i].family = f}) = 1
  BY DEF ScrapeComplete
<1>1. At(t, "serialize") /\ thread[t].todo = {}
  BY DEF WalkOver
<1>2. Printed(t)
  BY <1>1 DEF Complete, Progress
<1>3. PICK i \in 1 .. Len(thread[t].output) : thread[t].output[i].family = f
  BY <1>1, <1>2 DEF Printed
<1>4. {j \in 1 .. Len(thread[t].output) : thread[t].output[j].family = f} = {i}
  BY <1>2, <1>3 DEF Printed
<1> QED
  BY <1>4, FS_Singleton

LEMMA CompleteIsResetComplete == Complete => ResetComplete
BY DEF Complete, Progress, Forgotten, ResetComplete, WalkOver, At

LEMMA NumbersTyped ==
  ASSUME Typed
  PROVE  /\ DOMAIN updates = Made
         /\ \A f \in Made : value[f] \in Nat /\ updates[f] \in Nat
<1>1. MaxUpdates[alone] \in Nat
  BY RegistryAssumption DEF Typed
<1> QED
  BY <1>1 DEF Typed

(* While a thread walks or waits to, the others make and link no family.   *)
LEMMA OthersKeep ==
  ASSUME Typed, Exclusive, alone, NEW t \in Threads, ~At(t, "idle"),
         NEW u \in Threads \ {t}, Operation(u) \/ Step(u)
  PROVE  /\ thread'[t] = thread[t]
         /\ families' = families
         /\ updates' = updates
         /\ \A f \in Made : value'[f] \in {0, value[f]}
<1>1. u \notin Creating
  BY DEF Exclusive
<1>2. ~Make(u) /\ ~EmplaceLink(u)
  BY <1>1 DEF Creating, Make, EmplaceLink, At
<1>3. families' = families /\ updates' = updates
  BY <1>2 DEF Operation, Step, Create, Serialize, Reset, Call, Check, EmplaceFind,
              SerializeLock, SerializeFamily, ResetLock, ResetFamily, WalkDone, contents
<1>4. \A f \in Made : value'[f] \in {0, value[f]}
  <2>1. CASE ResetFamily(u)
    BY <2>1 DEF ResetFamily, Typed
  <2>2. CASE ~ResetFamily(u)
    BY <1>2, <2>2 DEF Operation, Step, Create, Serialize, Reset, Call, Check,
                      EmplaceFind, SerializeLock, SerializeFamily, ResetLock, WalkDone
  <2> QED
    BY <2>1, <2>2
<1> QED
  BY <1>2, <1>3, <1>4, OthersStay

(* So what one of them has achieved stays.                                 *)
LEMMA ProgressStays ==
  ASSUME Typed, NEW t \in Threads, Progress(t), thread'[t] = thread[t],
         families' = families,
         \A f \in Made : updates'[f] = updates[f] /\ value'[f] \in {0, value[f]}
  PROVE  Progress(t)'
<1>1. ASSUME thread[t].at \in {"reset_lock", "reset"}
      PROVE  /\ Noted(t)'
             /\ At(t, "reset") => Forgotten(t)'
  <2>1. /\ DOMAIN thread[t].base \subseteq Made
        /\ \A f \in DOMAIN thread[t].base : thread[t].base[f] \in Nat
    BY <1>1, BaseMade
  <2>2. Noted(t) /\ (At(t, "reset") => Forgotten(t))
    BY <1>1 DEF Progress
  <2>3. Noted(t)'
    BY <2>1, <2>2 DEF Noted
  <2>4. ASSUME At(t, "reset"), NEW f \in thread[t].known
        PROVE  f \in thread[t].todo \/ value'[f] <= updates'[f] - thread[t].base[f]
    <3>1. f \in Made /\ thread[t].base[f] \in Nat /\ thread[t].base[f] <= updates[f]
      BY <2>1, <2>2 DEF Noted
    <3>2. updates[f] \in Int /\ value[f] \in Nat /\ updates'[f] = updates[f]
      BY <3>1, NumbersTyped
    <3>3. value'[f] = 0 \/ value'[f] = value[f]
      BY <3>1
    <3>4. f \in thread[t].todo \/ value[f] <= updates[f] - thread[t].base[f]
      BY <2>2, <2>4 DEF Forgotten
    <3> QED
      BY <3>1, <3>2, <3>3, <3>4
  <2> QED
    BY <2>3, <2>4 DEF Forgotten
<1>2. At(t, "serialize") => Printed(t)'
  BY DEF Progress, Printed
<1> QED
  BY <1>1, <1>2 DEF Progress, At

LEMMA CompleteStep ==
  Typed /\ Exclusive /\ Complete /\ [Next]_vars => Complete'
<1> SUFFICES ASSUME Typed, Exclusive, Complete, [Next]_vars, alone,
                    NEW t \in Threads
             PROVE  Progress(t)'
  BY AloneFixed DEF Complete
<1>a. Progress(t) /\ thread[t] \in States
  BY DEF Complete, Typed
<1>b. thread'[t].at \notin {"serialize_lock", "reset_lock", "serialize", "reset"}
        => Progress(t)'
  BY DEF Progress, At
<1>1. ASSUME NEW u \in Threads \ {t}, Operation(u) \/ Step(u) PROVE Progress(t)'
  <2>1. CASE At(t, "idle")
    <3>1. thread'[t].at = "idle"
      BY <1>1, <2>1, OthersStay DEF At
    <3> QED
      BY <1>b, <3>1
  <2>2. CASE ~At(t, "idle")
    BY <1>1, <1>a, <2>2, OthersKeep, ProgressStays
  <2> QED
    BY <2>1, <2>2
<1>2. CASE \E n \in Names : Create(t, n)
  <2>1. thread'[t].at = "check"
    BY <1>2 DEF Create, Call, Goto, Typed
  <2> QED
    BY <1>b, <2>1
<1>3. CASE Serialize(t)
  <2>1. /\ thread'[t] = [at |-> "serialize_lock", known |-> families]
        /\ families' = families
    BY <1>3 DEF Serialize, Call, Goto, Typed, contents
  <2> QED
    BY <2>1 DEF Progress, At
<1>4. CASE Reset(t)
  <2>1. /\ thread'[t] = [at |-> "reset_lock", known |-> families, base |-> updates]
        /\ families' = families /\ updates' = updates
    BY <1>4 DEF Reset, Call, Goto, Typed, contents
  <2>2. \A f \in families : f \in DOMAIN updates /\ updates[f] <= updates[f]
    <3>0. families \subseteq Made
      BY DEF Typed
    <3>1. \A f \in families : f \in DOMAIN updates /\ updates[f] \in Int
      BY <3>0, NumbersTyped
    <3> QED
      BY <3>1
  <2> QED
    BY <2>1, <2>2 DEF Progress, At, Noted
<1>5. CASE Check(t) \/ Make(t) \/ EmplaceFind(t) \/ EmplaceLink(t) \/ WalkDone(t)
  <2>1. CASE Check(t)
    <3>1. thread[t] \in Checking
      BY <1>a, <2>1, StateByLabel DEF Check, At
    <3>2. thread'[t].at \in {"idle", "make"}
      BY <2>1, <3>1 DEF Check, Goto, Typed, Checking, Idle
    <3> QED
      BY <1>b, <3>2
  <2>2. CASE Make(t) \/ EmplaceFind(t) \/ EmplaceLink(t)
    <3>1. CASE Make(t)
      <4>1. thread'[t].at = "emplace"
        BY <3>1 DEF Make, Goto, Typed
      <4> QED
        BY <1>b, <4>1
    <3>2. CASE EmplaceFind(t)
      <4>1. thread'[t].at \in {"link", "idle"}
        BY <3>2 DEF EmplaceFind, Goto, Typed, Idle
      <4> QED
        BY <1>b, <4>1
    <3>3. CASE EmplaceLink(t)
      <4>1. thread'[t].at = "idle"
        BY <3>3 DEF EmplaceLink, Typed, Idle
      <4> QED
        BY <1>b, <4>1
    <3> QED
      BY <2>2, <3>1, <3>2, <3>3
  <2>3. CASE WalkDone(t)
    <3>1. thread'[t].at = "idle"
      BY <2>3 DEF WalkDone, Goto, Typed, Idle
    <3> QED
      BY <1>b, <3>1
  <2> QED
    BY <1>5, <2>1, <2>2, <2>3
<1>6. CASE SerializeLock(t)
  <2>1. /\ thread'[t].at = "serialize"
        /\ thread'[t].known = thread[t].known
        /\ thread'[t].todo = families
        /\ thread'[t].output = << >>
    BY <1>6 DEF SerializeLock, Goto, Scraping, Typed
  <2>2. thread[t].known \subseteq families
    BY <1>6, <1>a DEF SerializeLock, Progress, At
  <2>3. Printed(t)'
    BY <2>1, <2>2 DEF Printed
  <2> QED
    BY <2>1, <2>3 DEF Progress, At
<1>7. CASE SerializeFamily(t)
  <2>1. thread[t] \in InScrape /\ Printed(t)
    BY <1>7, <1>a, StateByLabel DEF SerializeFamily, Progress, At
  <2>2. PICK f \in thread[t].todo :
          thread' = [thread EXCEPT
                       ![t].todo = Rest(@, f),
                       ![t].output = Append(@, [family |-> f, value |-> value[f]])]
    BY <1>7 DEF SerializeFamily
  <2> DEFINE line == [family |-> f, value |-> value[f]]
             old == thread[t].output
             new == thread'[t].output
  <2>3. /\ thread'[t].at = "serialize"
        /\ thread'[t].known = thread[t].known
        /\ thread'[t].todo = thread[t].todo \ {f}
        /\ new = Append(old, line)
    BY <2>1, <2>2 DEF InScrape, Typed, Rest
  <2>4. old \in Seq(Lines) /\ line \in Lines
    BY <2>1, <2>2 DEF InScrape, Lines, Typed
  <2>5. /\ Len(new) = Len(old) + 1 /\ Len(old) \in Nat
        /\ \A i \in 1 .. Len(old) : new[i] = old[i]
        /\ new[Len(old) + 1] = line /\ line.family = f
    BY <2>3, <2>4, AppendProperties
  <2>6. \A i \in 1 .. Len(new) : i \in 1 .. Len(old) \/ i = Len(old) + 1
    BY <2>5
  <2>7. \A i \in 1 .. Len(old) : old[i].family # f
    BY <2>1, <2>2 DEF Printed
  <2>8. ASSUME NEW g \in thread[t].known, g \notin thread[t].todo \ {f}
        PROVE  \E i \in 1 .. Len(new) : new[i].family = g
    <3>1. CASE g = f
      BY <2>5, <3>1
    <3>2. CASE g # f
      <4>1. PICK i \in 1 .. Len(old) : old[i].family = g
        BY <2>1, <2>8, <3>2 DEF Printed
      <4> QED
        BY <2>5, <4>1
    <3> QED
      BY <3>1, <3>2
  <2>9. \A i \in 1 .. Len(new) : new[i].family \notin thread[t].todo \ {f}
    BY <2>1, <2>5, <2>6 DEF Printed
  <2>10. ASSUME NEW i \in 1 .. Len(new), NEW j \in 1 .. Len(new),
                new[i].family = new[j].family
         PROVE  i = j
    <3>1. /\ i \in 1 .. Len(old) => new[i].family # f
          /\ j \in 1 .. Len(old) => new[j].family # f
      BY <2>5, <2>7
    <3>2. /\ i = Len(old) + 1 => new[i].family = f
          /\ j = Len(old) + 1 => new[j].family = f
      BY <2>5
    <3>3. CASE i \in 1 .. Len(old) /\ j \in 1 .. Len(old)
      <4>1. old[i].family = old[j].family
        BY <2>5, <2>10, <3>3
      <4> QED
        BY <2>1, <3>3, <4>1 DEF Printed
    <3> QED
      BY <2>6, <2>10, <3>1, <3>2, <3>3
  <2>11. Printed(t)'
    BY <2>3, <2>8, <2>9, <2>10 DEF Printed
  <2> QED
    BY <2>3, <2>11 DEF Progress, At
<1>8. CASE ResetLock(t)
  <2>1. /\ thread'[t].at = "reset"
        /\ thread'[t].known = thread[t].known
        /\ thread'[t].base = thread[t].base
        /\ thread'[t].todo = families
        /\ updates' = updates
    BY <1>8 DEF ResetLock, Goto, Typed
  <2>2. thread[t].known \subseteq families /\ Noted(t)
    BY <1>8, <1>a DEF ResetLock, Progress, At
  <2>3. Noted(t)' /\ Forgotten(t)'
    BY <2>1, <2>2 DEF Noted, Forgotten
  <2> QED
    BY <2>1, <2>3 DEF Progress, At
<1>9. CASE ResetFamily(t)
  <2>1. thread[t] \in InReset /\ At(t, "reset") /\ Noted(t) /\ Forgotten(t)
    BY <1>9, <1>a, StateByLabel DEF ResetFamily, Progress, At
  <2>2. PICK f \in thread[t].todo : /\ thread' = [thread EXCEPT ![t].todo = Rest(@, f)]
                                    /\ value' = [value EXCEPT ![f] = 0]
    BY <1>9 DEF ResetFamily
  <2>3. /\ thread'[t].at = "reset"
        /\ thread'[t].known = thread[t].known
        /\ thread'[t].base = thread[t].base
        /\ thread'[t].todo = thread[t].todo \ {f}
    BY <2>1, <2>2 DEF InReset, Typed, Rest
  <2>4. updates' = updates
    BY <1>9 DEF ResetFamily
  <2>5. Noted(t)'
    BY <2>1, <2>3, <2>4 DEF Noted
  <2>6. ASSUME NEW g \in thread[t].known, g \notin thread[t].todo \ {f}
        PROVE  value'[g] <= updates[g] - thread[t].base[g]
    <3>1. g \in Made /\ thread[t].base[g] \in Nat /\ thread[t].base[g] <= updates[g]
      BY <2>1, BaseMade DEF Noted, At
    <3>2. updates[g] \in Int
      BY <3>1, NumbersTyped
    <3>3. CASE g = f
      BY <2>2, <3>1, <3>2, <3>3 DEF Typed
    <3>4. CASE g # f
      BY <2>1, <2>2, <2>6, <3>4 DEF Forgotten, Typed
    <3> QED
      BY <3>3, <3>4
  <2>7. Forgotten(t)'
    BY <2>3, <2>4, <2>6 DEF Forgotten
  <2> QED
    BY <2>3, <2>5, <2>7 DEF Progress, At
<1>10. ASSUME NEW f \in handles, Update(f) PROVE Progress(t)'
  <2>1. /\ thread' = thread /\ families' = families
        /\ \A g \in Made : /\ g = f => /\ updates'[g] = updates[g] + 1
                                       /\ value'[g] = value[g] + 1
                           /\ g # f => updates'[g] = updates[g] /\ value'[g] = value[g]
    BY <1>10 DEF Update, contents, Typed
  <2>2. \A g \in Made : updates[g] \in Nat /\ value[g] \in Nat
    BY NumbersTyped
  <2>3. ASSUME thread[t].at \in {"reset_lock", "reset"}
        PROVE  Noted(t)' /\ (At(t, "reset") => Forgotten(t)')
    <3>1. \A g \in DOMAIN thread[t].base : g \in Made /\ thread[t].base[g] \in Nat
      BY <2>3, BaseMade
    <3>2. Noted(t)
      BY <1>a, <2>3 DEF Progress
    <3>3. ASSUME NEW g \in thread[t].known
          PROVE  /\ g \in DOMAIN thread[t].base
                 /\ thread[t].base[g] <= updates'[g]
                 /\ At(t, "reset") =>
                      g \in thread[t].todo \/ value'[g] <= updates'[g] - thread[t].base[g]
      <4>1. /\ g \in Made /\ g \in DOMAIN thread[t].base
            /\ thread[t].base[g] \in Nat /\ thread[t].base[g] <= updates[g]
        BY <3>1, <3>2 DEF Noted
      <4>2. At(t, "reset") =>
              g \in thread[t].todo \/ value[g] <= updates[g] - thread[t].base[g]
        BY <1>a DEF Progress, Forgotten
      <4> QED
        BY <2>1, <2>2, <4>1, <4>2
    <3> QED
      BY <2>1, <3>3 DEF Noted, Forgotten
  <2>4. At(t, "serialize") => Printed(t)'
    BY <1>a, <2>1 DEF Progress, Printed
  <2> QED
    BY <1>a, <2>1, <2>3, <2>4 DEF Progress, At
<1>11. CASE UNCHANGED vars
  <2>1. thread' = thread /\ families' = families /\ updates' = updates /\ value' = value
    BY <1>11 DEF vars
  <2> QED
    BY <1>a, <2>1, ProgressStays
<1> QED
  BY <1>1, <1>2, <1>3, <1>4, <1>5, <1>6, <1>7, <1>8, <1>9, <1>10, <1>11
  DEF Next, Operation, Step, Finished

LEMMA AlwaysComplete == Spec => []Complete
<1>1. Init => Complete
  BY DEF Init, Complete, Progress, At, Idle
<1> QED
  BY <1>1, CompleteStep, AlwaysTyped, AlwaysExclusive, PTL DEF Spec

(* Where callers create families beside no other call, a scrape has one    *)
(* line for each family registered when it was called, and none twice,     *)
(* whatever updates and resets run beside it (registry.cpp:65).         *)
THEOREM ScrapesComplete == Spec => []ScrapeComplete
BY AlwaysTyped, AlwaysComplete, CompleteIsScrapeComplete, PTL

(* And a reset that is over has forgotten every update made before it was  *)
(* called (registry.cpp:82).                                           *)
THEOREM ResetsComplete == Spec => []ResetComplete
BY AlwaysComplete, CompleteIsResetComplete, PTL

=============================================================================
