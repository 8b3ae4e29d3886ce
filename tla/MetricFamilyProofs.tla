------------------------- MODULE MetricFamilyProofs -------------------------
(***************************************************************************)
(* Theorems about MetricFamily, for any threads and labels and any number  *)
(* of calls, metrics and updates.                                          *)
(***************************************************************************)
EXTENDS MetricFamily, BasicLemmas

Metrics == 1 .. Len(metrics)

Lines == [metric : Nat, text : {"whole", "torn"}]

Walking == {"look", "write", "read"}

(* What a thread may note in a call.                                       *)
Frames ==
  [op : {"add", "get", "serialize", "reset"},
   pc : Walking \cup {"append", "search", "throw", "begin", "next", "reset_lock", "reset"},
   arg : Labels \cup {NoLabels}, next : Nat, buffer : Nat, last : Nat,
   output : Seq(Lines), known : SUBSET Metrics, touched : SUBSET Metrics]

Stopped == [op |-> "none", pc |-> "crashed"]

States == {Idle, Stopped} \cup Frames

(* Each label belongs to a call, and the metric a thread has reached is    *)
(* there.                                                                  *)
Fits(f) ==
  /\ f.pc = "append" => f.op = "add" /\ f.arg \in Labels
  /\ f.pc \in {"search", "throw"} => f.op = "get"
  /\ f.pc \in Walking => f.op \in {"get", "serialize"} /\ f.next \in Metrics
  /\ f.pc \in {"begin", "next"} => f.op = "serialize"
  /\ f.pc \in {"reset_lock", "reset"} => f.op = "reset"
  /\ f.op = "get" => f.arg \in Labels
  /\ f.op = "serialize" /\ f.pc \in Walking => f.next <= f.last
  /\ f.pc \in {"next", "reset"} => f.next >= 1
  /\ f.pc = "next" => f.next <= f.last + 1
  /\ f.next <= Len(metrics) + 1
  /\ f.last <= Len(metrics)

(* The type invariant with all that a thread notes.                        *)
Typed ==
  /\ setupFirst \in BOOLEAN
  /\ metrics \in Seq(Labels)
  /\ value \in [Metrics -> 0 .. MaxUpdates]
  /\ buffer \in [id : Nat, capacity : Nat]
  /\ Len(metrics) <= buffer.capacity
  /\ cached \subseteq Metrics
  /\ writers \in [Metrics -> SUBSET Threads]
  /\ mutex \in Threads \cup {NoThread}
  /\ thread \in [Threads -> States]
  /\ \A t \in Threads : thread[t] \in Frames => Fits(thread[t])
  /\ calls \in 0 .. MaxCalls[setupFirst]
  /\ returned \subseteq Metrics
  /\ got \in [Labels -> SUBSET Metrics]
  /\ missed \subseteq Labels

LEMMA TypedIsTypeOK == Typed => TypeOK
<1> SUFFICES ASSUME Typed PROVE TypeOK
  OBVIOUS
<1>1. ASSUME NEW t \in Threads, thread[t].op # "none"
      PROVE  /\ thread[t].op \in {"add", "get", "serialize", "reset"}
             /\ thread[t].arg \in Labels \cup {NoLabels}
             /\ thread[t].next \in 0 .. Len(metrics) + 1
  <2>1. thread[t] \in Frames
    BY <1>1 DEF Typed, States, Idle, Stopped
  <2>2. thread[t].next \in Nat /\ thread[t].next <= Len(metrics) + 1
    BY <2>1 DEF Typed, Frames, Fits
  <2>3. Len(metrics) \in Nat
    BY DEF Typed
  <2> QED
    BY <2>1, <2>2, <2>3 DEF Frames
<1> QED
  BY <1>1 DEF Typed, TypeOK, Metrics

(* Where a thread is inside a call.                                        *)
LEMMA FrameByLabel ==
  ASSUME Typed, NEW t \in Threads
  PROVE  /\ thread[t] \in States
         /\ thread[t].pc \notin {"idle", "crashed"} => thread[t] \in Frames /\ Fits(thread[t])
         /\ thread[t].op # "none" => thread[t] \in Frames /\ Fits(thread[t])
         /\ thread[t] \in Frames => /\ thread[t].pc \notin {"idle", "crashed"}
                                    /\ thread[t].op # "none"
<1>1. thread[t] \in States /\ (thread[t] \in Frames => Fits(thread[t]))
  BY DEF Typed
<1>2. thread[t] = Idle \/ thread[t] = Stopped \/ thread[t] \in Frames
  BY <1>1 DEF States
<1>3. /\ Idle.pc = "idle" /\ Idle.op = "none"
      /\ Stopped.pc = "crashed" /\ Stopped.op = "none"
  BY DEF Idle, Stopped
<1>4. thread[t] \in Frames =>
        thread[t].pc \notin {"idle", "crashed"} /\ thread[t].op # "none"
  BY DEF Frames, Walking
<1> QED
  BY <1>1, <1>2, <1>3, <1>4

(* What a step of thread t leaves as it was.                               *)
Kept(t) ==
  /\ thread'[t].op = thread[t].op
  /\ thread'[t].arg = thread[t].arg
  /\ thread'[t].buffer = thread[t].buffer
  /\ thread'[t].last = thread[t].last
  /\ thread'[t].output = thread[t].output
  /\ thread'[t].known = thread[t].known
  /\ thread'[t].touched = thread[t].touched

Others(t) == \A u \in Threads \ {t} : thread'[u] = thread[u]

LEMMA ResumeMoves ==
  ASSUME Typed, NEW t \in Threads, thread[t] \in Frames,
         NEW label \in Walking \cup {"throw", "next", "reset"}, NEW n \in Nat,
         Resume(t, label, n)
  PROVE  /\ Kept(t) /\ Others(t)
         /\ thread'[t].pc = label /\ thread'[t].next = n
         /\ thread' \in [Threads -> States] /\ thread'[t] \in Frames
<1>1. thread \in [Threads -> States]
  BY DEF Typed
<1>2. thread' = [thread EXCEPT ![t] = [thread[t] EXCEPT !.pc = label, !.next = n]]
  BY <1>1 DEF Resume
<1>3. [thread[t] EXCEPT !.pc = label, !.next = n] \in Frames
  BY DEF Frames
<1>4. thread'[t] = [thread[t] EXCEPT !.pc = label, !.next = n]
  BY <1>1, <1>2
<1>5. Kept(t) /\ thread'[t].pc = label /\ thread'[t].next = n
  BY <1>4 DEF Frames, Kept
<1>6. thread' \in [Threads -> States]
  BY <1>1, <1>2, <1>3 DEF States
<1> QED
  BY <1>1, <1>2, <1>3, <1>4, <1>5, <1>6 DEF Others

LEMMA GotoMoves ==
  ASSUME Typed, NEW t \in Threads, thread[t] \in Frames,
         NEW label \in Walking \cup {"throw"}, Goto(t, label)
  PROVE  /\ Kept(t) /\ Others(t)
         /\ thread'[t].pc = label /\ thread'[t].next = thread[t].next
         /\ thread' \in [Threads -> States] /\ thread'[t] \in Frames
<1>1. thread \in [Threads -> States]
  BY DEF Typed
<1>2. thread' = [thread EXCEPT ![t] = [thread[t] EXCEPT !.pc = label]]
  BY <1>1 DEF Goto
<1>3. [thread[t] EXCEPT !.pc = label] \in Frames
  BY DEF Frames
<1>4. thread'[t] = [thread[t] EXCEPT !.pc = label]
  BY <1>1, <1>2
<1>5. Kept(t) /\ thread'[t].pc = label /\ thread'[t].next = thread[t].next
  BY <1>4 DEF Frames, Kept
<1>6. thread' \in [Threads -> States]
  BY <1>1, <1>2, <1>3 DEF States
<1> QED
  BY <1>1, <1>2, <1>3, <1>4, <1>5, <1>6 DEF Others

LEMMA ReturnMoves ==
  ASSUME Typed, NEW t \in Threads, Return(t)
  PROVE  /\ Others(t) /\ thread'[t] = Idle
         /\ thread' \in [Threads -> States]
BY DEF Typed, Return, Others, States

LEMMA CallMoves ==
  ASSUME Typed, NEW t \in Threads,
         NEW call \in {"add", "get", "serialize", "reset"},
         NEW label \in {"append", "search", "begin", "reset_lock"},
         NEW l \in Labels \cup {NoLabels}, Call(t, call, label, l)
  PROVE  /\ Others(t)
         /\ thread[t] = Idle
         /\ thread'[t] = Frame(call, label, l)
         /\ thread'[t] \in Frames
         /\ thread' \in [Threads -> States]
<1>1. thread[t] \in States /\ At(t, "idle")
  BY DEF Typed, Call
<1>2. thread[t] = Idle
  BY <1>1 DEF States, At, Stopped, Frames, Walking
<1>3. returned \subseteq Metrics /\ {} \subseteq Metrics
  BY DEF Typed
<1>4. << >> \in Seq(Lines)
  OBVIOUS
<1>5. Frame(call, label, l) \in Frames
  BY <1>3, <1>4 DEF Frame, Frames
<1>6. thread' = [thread EXCEPT ![t] = Frame(call, label, l)]
  BY DEF Call
<1> QED
  BY <1>2, <1>5, <1>6 DEF Typed, States, Others

(* A step inside a call, and one that ends it.                             *)
Stays(t) ==
  /\ thread[t] \in Frames /\ Fits(thread[t])
  /\ thread'[t] \in Frames
  /\ thread' \in [Threads -> States]
  /\ Kept(t) /\ Others(t)

Ends(t) ==
  /\ thread[t] \in Frames /\ Fits(thread[t])
  /\ thread'[t] = Idle
  /\ thread' \in [Threads -> States]
  /\ Others(t)

(* What each step of a call does to the thread that makes it.              *)
LEMMA LookMoves ==
  ASSUME Typed, NEW t \in Threads, Look(t)
  PROVE  /\ Stays(t) /\ thread[t].pc = "look"
         /\ thread'[t].next = thread[t].next
         /\ thread'[t].pc \in {"write", "read"}
<1>1. thread[t] \in Frames /\ Fits(thread[t]) /\ thread[t].pc = "look"
  BY FrameByLabel DEF Look, At
<1>2. Goto(t, "write") \/ Goto(t, "read")
  BY DEF Look
<1>3. CASE Goto(t, "write")
  BY <1>1, <1>3, GotoMoves DEF Walking, Stays
<1>4. CASE Goto(t, "read")
  BY <1>1, <1>4, GotoMoves DEF Walking, Stays
<1> QED
  BY <1>2, <1>3, <1>4

LEMMA WriteMoves ==
  ASSUME Typed, NEW t \in Threads, Write(t)
  PROVE  /\ Stays(t) /\ thread[t].pc = "write"
         /\ thread'[t].next = thread[t].next
         /\ thread'[t].pc = "read"
<1>1. thread[t] \in Frames /\ Fits(thread[t]) /\ thread[t].pc = "write"
  BY FrameByLabel DEF Write, At
<1>2. Goto(t, "read")
  BY DEF Write
<1> QED
  BY <1>1, <1>2, GotoMoves DEF Walking, Stays

LEMMA SearchMoves ==
  ASSUME Typed, NEW t \in Threads, Search(t)
  PROVE  /\ Stays(t) /\ thread[t].pc = "search"
         /\ thread'[t].next = 1
         /\ thread'[t].pc = IF metrics = << >> THEN "throw" ELSE "look"
<1>1. thread[t] \in Frames /\ Fits(thread[t]) /\ thread[t].pc = "search"
  BY FrameByLabel DEF Search, At
<1>2. Resume(t, IF metrics = << >> THEN "throw" ELSE "look", 1)
  BY DEF Search
<1> QED
  BY <1>1, <1>2, ResumeMoves DEF Walking, Stays

LEMMA MatchMoves ==
  ASSUME Typed, NEW t \in Threads, Match(t)
  PROVE  /\ thread[t].pc = "read" /\ thread[t].op = "get"
         /\ \/ /\ Ends(t) /\ Found(t)
               /\ metrics[thread[t].next] = thread[t].arg
            \/ /\ Stays(t)
               /\ thread'[t].next = thread[t].next + 1
               /\ thread'[t].pc =
                    IF thread[t].next = Len(metrics) THEN "throw" ELSE "look"
               /\ \/ metrics[thread[t].next] # thread[t].arg
                  \/ writers[thread[t].next] # {}
               /\ mutex' = mutex /\ got' = got
<1>1. /\ thread[t] \in Frames /\ Fits(thread[t])
      /\ thread[t].pc = "read" /\ thread[t].op = "get"
  BY FrameByLabel DEF Match, At, In
<1>2. thread[t].next + 1 \in Nat
  BY <1>1 DEF Frames
<1>3. PICK reading \in Readings(Reached(t)) :
        IF reading = "whole" /\ metrics[Reached(t)] = thread[t].arg
          THEN Found(t)
          ELSE /\ Resume(t, IF Reached(t) = Len(metrics) THEN "throw" ELSE "look",
                         Reached(t) + 1)
               /\ UNCHANGED <<mutex, got>>
  BY DEF Match
<1>4. CASE reading = "whole" /\ metrics[Reached(t)] = thread[t].arg
  <2>1. Found(t) /\ Return(t)
    BY <1>3, <1>4 DEF Found
  <2>2. Ends(t)
    BY <1>1, <2>1, ReturnMoves DEF Ends
  <2> QED
    BY <1>1, <1>4, <2>1, <2>2 DEF Reached
<1>5. CASE ~(reading = "whole" /\ metrics[Reached(t)] = thread[t].arg)
  <2>1. /\ Resume(t, IF Reached(t) = Len(metrics) THEN "throw" ELSE "look",
                  Reached(t) + 1)
        /\ mutex' = mutex /\ got' = got
    BY <1>3, <1>5
  <2>2. \/ metrics[thread[t].next] # thread[t].arg
        \/ writers[thread[t].next] # {}
    BY <1>3, <1>5 DEF Readings, Reached
  <2>3. /\ Stays(t)
        /\ thread'[t].next = thread[t].next + 1
        /\ thread'[t].pc = IF thread[t].next = Len(metrics) THEN "throw" ELSE "look"
    BY <1>1, <1>2, <2>1, ResumeMoves DEF Walking, Stays, Reached
  <2> QED
    BY <1>1, <2>1, <2>2, <2>3
<1> QED
  BY <1>4, <1>5

LEMMA ThrowMoves ==
  ASSUME Typed, NEW t \in Threads, Throw(t)
  PROVE  Ends(t) /\ thread[t].pc = "throw" /\ thread[t].op = "get"
<1>1. thread[t] \in Frames /\ Fits(thread[t]) /\ thread[t].pc = "throw"
  BY FrameByLabel DEF Throw, At
<1>2. Return(t)
  BY DEF Throw
<1> QED
  BY <1>1, <1>2, ReturnMoves DEF Ends, Fits

LEMMA AppendMoves ==
  ASSUME Typed, NEW t \in Threads, AppendMetric(t)
  PROVE  /\ thread[t] \in Frames /\ Fits(thread[t])
         /\ thread[t].pc = "append" /\ thread[t].op = "add"
         /\ thread' = [thread EXCEPT ![t] = Idle] /\ Others(t)
<1>1. thread[t] \in Frames /\ Fits(thread[t]) /\ thread[t].pc = "append"
  BY FrameByLabel DEF AppendMetric, At
<1>2. Return(t)
  BY DEF AppendMetric
<1> QED
  BY <1>1, <1>2, ReturnMoves DEF Return, Fits

LEMMA BeginMoves ==
  ASSUME Typed, NEW t \in Threads, Begin(t)
  PROVE  /\ thread[t] \in Frames /\ Fits(thread[t])
         /\ thread[t].pc = "begin" /\ thread[t].op = "serialize"
         /\ thread'[t] \in Frames
         /\ thread' \in [Threads -> States] /\ Others(t)
         /\ thread'[t].pc = "next" /\ thread'[t].next = 1
         /\ thread'[t].buffer = buffer.id /\ thread'[t].last = Len(metrics)
         /\ thread'[t].op = thread[t].op
         /\ thread'[t].arg = thread[t].arg
         /\ thread'[t].output = thread[t].output
         /\ thread'[t].known = thread[t].known
<1>1. thread[t] \in Frames /\ Fits(thread[t]) /\ thread[t].pc = "begin"
  BY FrameByLabel DEF Begin, At
<1>2. thread[t].op = "serialize"
  BY <1>1 DEF Fits
<1>3. buffer.id \in Nat /\ Len(metrics) \in Nat
  BY DEF Typed
<1> DEFINE now == [thread[t] EXCEPT !.pc = "next", !.next = 1, !.buffer = buffer.id,
                                    !.last = Len(metrics)]
<1>4. now \in Frames
  BY <1>1, <1>3 DEF Frames
<1>5. thread' = [thread EXCEPT ![t] = now]
  BY DEF Begin, Typed
<1>6. thread'[t] = now /\ Others(t) /\ thread' \in [Threads -> States]
  BY <1>4, <1>5 DEF Typed, States, Others
<1>7. /\ now.pc = "next" /\ now.next = 1
      /\ now.buffer = buffer.id /\ now.last = Len(metrics)
      /\ now.op = thread[t].op /\ now.arg = thread[t].arg
      /\ now.output = thread[t].output /\ now.known = thread[t].known
  BY <1>1 DEF Frames
<1> HIDE DEF now
<1> QED
  BY <1>1, <1>2, <1>4, <1>6, <1>7

LEMMA NextMoves ==
  ASSUME Typed, NEW t \in Threads, NextMetric(t)
  PROVE  /\ thread[t].pc = "next" /\ thread[t].op = "serialize"
         /\ thread[t].next <= thread[t].last
         /\ \/ /\ Dangling(t)
               /\ thread' = [u \in Threads |-> Stopped]
            \/ /\ Stays(t)
               /\ thread'[t].next = thread[t].next
               /\ thread'[t].pc = "look"
<1>1. thread[t] \in Frames /\ Fits(thread[t]) /\ thread[t].pc = "next"
  BY FrameByLabel DEF NextMetric, At
<1>2. thread[t].op = "serialize" /\ thread[t].next <= thread[t].last
  BY <1>1 DEF Fits, NextMetric, Reached
<1>3. CASE Goto(t, "look")
  BY <1>1, <1>2, <1>3, GotoMoves DEF Walking, Stays
<1>4. CASE Dangling(t) /\ thread' = [u \in Threads |-> Stopped]
  BY <1>1, <1>2, <1>4
<1> QED
  BY <1>3, <1>4 DEF NextMetric, Stopped

LEMMA PrintMoves ==
  ASSUME Typed, NEW t \in Threads, PrintMetric(t)
  PROVE  /\ thread[t] \in Frames /\ Fits(thread[t])
         /\ thread[t].pc = "read" /\ thread[t].op = "serialize"
         /\ thread'[t] \in Frames
         /\ thread' \in [Threads -> States] /\ Others(t)
         /\ thread'[t].pc = "next" /\ thread'[t].next = thread[t].next + 1
         /\ thread'[t].buffer = thread[t].buffer /\ thread'[t].last = thread[t].last
         /\ thread'[t].op = thread[t].op
         /\ thread'[t].arg = thread[t].arg
         /\ thread'[t].known = thread[t].known
         /\ \E reading \in Readings(thread[t].next) :
              thread'[t].output =
                Append(thread[t].output, [metric |-> thread[t].next, text |-> reading])
<1>1. /\ thread[t] \in Frames /\ Fits(thread[t])
      /\ thread[t].pc = "read" /\ thread[t].op = "serialize"
  BY FrameByLabel DEF PrintMetric, At, In
<1>2. PICK reading \in Readings(Reached(t)) :
        thread' = [thread EXCEPT
                     ![t].pc = "next",
                     ![t].next = @ + 1,
                     ![t].output = Append(@, [metric |-> Reached(t), text |-> reading])]
  BY DEF PrintMetric
<1> DEFINE line == [metric |-> thread[t].next, text |-> reading]
           output == Append(thread[t].output, line)
           now == [thread[t] EXCEPT !.pc = "next", !.next = @ + 1, !.output = output]
<1>3. line \in Lines
  BY <1>1, <1>2 DEF Lines, Frames, Readings
<1>4. output \in Seq(Lines)
  BY <1>1, <1>3, AppendProperties DEF Frames
<1>5. thread' = [thread EXCEPT ![t] = now]
  BY <1>1, <1>2 DEF Typed, Reached
<1>6. output = Append(thread[t].output, line)
  OBVIOUS
<1> HIDE DEF output
<1>7. now \in Frames
  <2>1. thread[t].next + 1 \in Nat
    BY <1>1 DEF Frames
  <2>2. [thread[t] EXCEPT !.pc = "next", !.next = thread[t].next + 1] \in Frames
    BY <1>1, <2>1 DEF Frames
  <2>3. \A f \in Frames : [f EXCEPT !.output = output] \in Frames
    BY <1>4 DEF Frames
  <2> QED
    BY <2>2, <2>3
<1>8. thread'[t] = now /\ Others(t) /\ thread' \in [Threads -> States]
  BY <1>5, <1>7 DEF Typed, States, Others
<1>9. /\ now.pc = "next" /\ now.next = thread[t].next + 1
      /\ now.buffer = thread[t].buffer /\ now.last = thread[t].last
      /\ now.op = thread[t].op /\ now.arg = thread[t].arg
      /\ now.known = thread[t].known
      /\ now.output = output
  BY <1>1 DEF Frames
<1> HIDE DEF now
<1> QED
  BY <1>1, <1>2, <1>6, <1>7, <1>8, <1>9 DEF Reached

LEMMA SerializeDoneMoves ==
  ASSUME Typed, NEW t \in Threads, SerializeDone(t)
  PROVE  Ends(t) /\ thread[t].op = "serialize"
<1>1. thread[t] \in Frames /\ Fits(thread[t]) /\ thread[t].pc = "next"
  BY FrameByLabel DEF SerializeDone, ScrapeOver, At
<1>2. Return(t)
  BY DEF SerializeDone
<1> QED
  BY <1>1, <1>2, ReturnMoves DEF Ends, Fits

LEMMA ResetLockMoves ==
  ASSUME Typed, NEW t \in Threads, ResetLock(t)
  PROVE  /\ Stays(t) /\ thread[t].pc = "reset_lock" /\ thread[t].op = "reset"
         /\ thread'[t].next = 1 /\ thread'[t].pc = "reset"
<1>1. thread[t] \in Frames /\ Fits(thread[t]) /\ thread[t].pc = "reset_lock"
  BY FrameByLabel DEF ResetLock, At
<1>2. Resume(t, "reset", 1)
  BY DEF ResetLock
<1> QED
  BY <1>1, <1>2, ResumeMoves DEF Walking, Stays, Fits

LEMMA ResetMetricMoves ==
  ASSUME Typed, NEW t \in Threads, ResetMetric(t)
  PROVE  /\ Stays(t) /\ thread[t].pc = "reset" /\ thread[t].op = "reset"
         /\ thread[t].next \in Metrics
         /\ thread'[t].next = thread[t].next + 1 /\ thread'[t].pc = "reset"
<1>1. thread[t] \in Frames /\ Fits(thread[t]) /\ thread[t].pc = "reset"
  BY FrameByLabel DEF ResetMetric, At
<1>2. Resume(t, "reset", thread[t].next + 1) /\ thread[t].next <= Len(metrics)
  BY DEF ResetMetric, Reached
<1>3. thread[t].next \in Nat /\ thread[t].next >= 1 /\ Len(metrics) \in Nat
  BY <1>1 DEF Frames, Fits, Typed
<1>4. thread[t].next + 1 \in Nat /\ thread[t].next \in Metrics
  BY <1>2, <1>3 DEF Metrics
<1> QED
  BY <1>1, <1>2, <1>4, ResumeMoves DEF Walking, Stays, Fits

LEMMA ResetDoneMoves ==
  ASSUME Typed, NEW t \in Threads, ResetDone(t)
  PROVE  Ends(t) /\ thread[t].pc = "reset" /\ thread[t].op = "reset"
<1>1. thread[t] \in Frames /\ Fits(thread[t]) /\ thread[t].pc = "reset"
  BY FrameByLabel DEF ResetDone, ResetOver, At
<1>2. Return(t)
  BY DEF ResetDone
<1> QED
  BY <1>1, <1>2, ReturnMoves DEF Ends, Fits

-----------------------------------------------------------------------------
(* Types.                                                                  *)

LEMMA TypedInit == Init => Typed
<1> SUFFICES ASSUME Init PROVE Typed
  OBVIOUS
<1>1. setupFirst \in BOOLEAN /\ MaxCalls[setupFirst] \in Nat
  BY MetricFamilyAssumption DEF Init
<1>2. metrics \in Seq(Labels) /\ Metrics = {} /\ Len(metrics) = 0
  BY DEF Init, Metrics
<1>3. thread \in [Threads -> States] /\ \A t \in Threads : thread[t] \notin Frames
  BY DEF Init, States, Idle, Frames
<1>4. value \in [Metrics -> 0 .. MaxUpdates] /\ writers \in [Metrics -> SUBSET Threads]
  BY <1>2 DEF Init
<1>5. buffer \in [id : Nat, capacity : Nat] /\ Len(metrics) <= buffer.capacity
  BY <1>2 DEF Init
<1>6. /\ cached \subseteq Metrics /\ mutex \in Threads \cup {NoThread}
      /\ returned \subseteq Metrics /\ missed \subseteq Labels
      /\ got \in [Labels -> SUBSET Metrics]
      /\ calls \in 0 .. MaxCalls[setupFirst]
  BY <1>1 DEF Init
<1> QED
  BY <1>1, <1>2, <1>3, <1>4, <1>5, <1>6 DEF Typed

(* A step of one thread while no metric is added.                          *)
LEMMA TypedMove ==
  ASSUME Typed, NEW t \in Threads, metrics' = metrics,
         thread' \in [Threads -> States], Others(t),
         thread'[t] \in Frames => Fits(thread'[t])
  PROVE  /\ Metrics' = Metrics /\ Frames' = Frames /\ States' = States
         /\ \A u \in Threads : thread'[u] \in Frames => Fits(thread[u])'
<1>1. Metrics' = Metrics
  BY DEF Metrics
<1>2. Frames' = Frames
  BY <1>1 DEF Frames, Walking, Lines
<1>3. States' = States
  BY <1>2 DEF States, Idle, Stopped
<1>4. ASSUME NEW u \in Threads, thread'[u] \in Frames PROVE Fits(thread'[u])
  BY <1>4 DEF Typed, Others
<1>5. ASSUME NEW u \in Threads, thread'[u] \in Frames PROVE Fits(thread[u])'
  BY <1>1, <1>4, <1>5 DEF Fits
<1> QED
  BY <1>1, <1>2, <1>3, <1>5

LEMMA IdleFits == Idle \notin Frames
BY DEF Idle, Frames

(* The vector grows and keeps what it had.                                 *)
LEMMA AppendGrows ==
  ASSUME Typed, NEW t \in Threads, AppendMetric(t)
  PROVE  /\ metrics' \in Seq(Labels)
         /\ Len(metrics) \in Nat /\ Len(metrics') = Len(metrics) + 1
         /\ Metrics' = Metrics \cup {Len(metrics')}
         /\ Len(metrics') \notin Metrics
         /\ \A m \in Metrics : metrics'[m] = metrics[m]
         /\ metrics'[Len(metrics')] = thread[t].arg
         /\ value' = [m \in Metrics' |-> IF m = Len(metrics') THEN 0 ELSE value[m]]
         /\ writers' = [m \in Metrics' |-> IF m = Len(metrics') THEN {} ELSE writers[m]]
<1>1. thread[t].arg \in Labels
  BY AppendMoves DEF Fits
<1>2. metrics' = Append(metrics, thread[t].arg) /\ metrics \in Seq(Labels)
  BY DEF AppendMetric, Typed
<1>3. /\ metrics' \in Seq(Labels)
      /\ Len(metrics) \in Nat /\ Len(metrics') = Len(metrics) + 1
      /\ \A m \in Metrics : metrics'[m] = metrics[m]
      /\ metrics'[Len(metrics')] = thread[t].arg
  BY <1>1, <1>2, AppendProperties DEF Metrics
<1>4. Metrics' = 1 .. Len(metrics) + 1
  BY <1>3 DEF Metrics
<1>5. value' = [m \in Metrics' |-> IF m = Len(metrics') THEN 0 ELSE value[m]]
  <2> DEFINE Number == 0 .. MaxUpdates
  <2>1. value \in [1 .. Len(metrics) -> Number] /\ 0 \in Number
    BY MetricFamilyAssumption DEF Typed, Metrics
  <2>2. value' = Append(value, 0)
    BY DEF AppendMetric
  <2> HIDE DEF Number
  <2>3. Append(value, 0) =
          [m \in 1 .. Len(metrics) + 1 |-> IF m = Len(metrics) + 1 THEN 0 ELSE value[m]]
    BY ONLY <1>3, <2>1, AppendExtends
  <2> QED
    BY ONLY <1>3, <1>4, <2>2, <2>3
<1>6. writers' = [m \in Metrics' |-> IF m = Len(metrics') THEN {} ELSE writers[m]]
  <2> DEFINE Owners == SUBSET Threads
  <2>1. writers \in [1 .. Len(metrics) -> Owners] /\ {} \in Owners
    BY DEF Typed, Metrics
  <2>2. writers' = Append(writers, {})
    BY DEF AppendMetric
  <2> HIDE DEF Owners
  <2>3. Append(writers, {}) =
          [m \in 1 .. Len(metrics) + 1 |-> IF m = Len(metrics) + 1 THEN {} ELSE writers[m]]
    BY ONLY <1>3, <2>1, AppendExtends
  <2> QED
    BY ONLY <1>3, <1>4, <2>2, <2>3
<1>7. Metrics' = Metrics \cup {Len(metrics')} /\ Len(metrics') \notin Metrics
  BY <1>3, <1>4 DEF Metrics
<1> QED
  BY <1>3, <1>5, <1>6, <1>7

LEMMA TypedStep == Typed /\ [Next]_vars => Typed'
<1> SUFFICES ASSUME Typed, [Next]_vars PROVE Typed'
  OBVIOUS
<1>a. MaxCalls[setupFirst] \in Nat /\ MaxUpdates \in Nat /\ Len(metrics) \in Nat
  BY MetricFamilyAssumption DEF Typed
<1>b. ASSUME NEW t \in Threads, setupFirst' = setupFirst, metrics' = metrics,
             buffer' = buffer,
             thread' \in [Threads -> States], Others(t),
             thread'[t] \in Frames => Fits(thread'[t]),
             value' \in [Metrics -> 0 .. MaxUpdates],
             writers' \in [Metrics -> SUBSET Threads],
             cached' \subseteq Metrics,
             mutex' \in Threads \cup {NoThread},
             calls' \in 0 .. MaxCalls[setupFirst],
             returned' = returned,
             got' \in [Labels -> SUBSET Metrics],
             missed' \subseteq Labels
      PROVE  Typed'
  BY <1>b, TypedMove DEF Typed
<1>1. ASSUME NEW t \in Threads, Operation(t) PROVE Typed'
  <2>1. ASSUME NEW call \in {"add", "get", "serialize", "reset"},
               NEW label \in {"append", "search", "begin", "reset_lock"},
               NEW l \in Labels \cup {NoLabels}, Call(t, call, label, l),
               <<call, label>> \in {<<"add", "append">>, <<"get", "search">>,
                                    <<"serialize", "begin">>, <<"reset", "reset_lock">>},
               call \in {"add", "get"} => l \in Labels
        PROVE  Typed'
    <3>1. /\ Others(t) /\ thread'[t] = Frame(call, label, l)
          /\ thread' \in [Threads -> States]
      BY <2>1, CallMoves
    <3>2. Fits(Frame(call, label, l))
      BY <1>a, <2>1 DEF Fits, Frame, Walking
    <3>3. /\ setupFirst' = setupFirst /\ metrics' = metrics /\ buffer' = buffer
          /\ value' = value /\ writers' = writers /\ cached' = cached /\ mutex' = mutex
          /\ returned' = returned /\ got' = got /\ missed' = missed
          /\ calls' = calls + 1 /\ calls < MaxCalls[setupFirst]
      BY <2>1 DEF Call, series, cache, history
    <3>4. calls' \in 0 .. MaxCalls[setupFirst]
      BY <1>a, <3>3 DEF Typed
    <3> QED
      BY <1>b, <3>1, <3>2, <3>3, <3>4 DEF Typed
  <2> QED
    BY <1>1, <2>1 DEF Operation, Add, Get, Serialize, Reset
<1>2. ASSUME NEW t \in Threads, AppendMetric(t) PROVE Typed'
  <2>1. Metrics \subseteq Metrics'
    BY <1>2, AppendGrows
  <2>2. Frames \subseteq Frames'
    BY <2>1 DEF Frames, Walking, Lines
  <2>3. thread' = [thread EXCEPT ![t] = Idle]
    BY <1>2, AppendMoves
  <2>4. thread' \in [Threads -> States']
    BY <2>2, <2>3 DEF Typed, States
  <2>5. ASSUME NEW u \in Threads, thread'[u] \in Frames' PROVE Fits(thread[u])'
    <3>1. u # t /\ thread'[u] = thread[u]
      <4>1. Idle \notin Frames'
        BY DEF Idle, Frames
      <4> QED
        BY <2>3, <2>5, <4>1 DEF Typed
    <3>2. thread[u] \in Frames
      <4>1. Idle \notin Frames' /\ Stopped \notin Frames'
        BY DEF Idle, Stopped, Frames
      <4> QED
        BY <2>5, <3>1, <4>1 DEF Typed, States
    <3>3. Fits(thread[u])
      BY <3>2 DEF Typed
    <3>4. Len(metrics') = Len(metrics) + 1
      BY <1>2, AppendGrows
    <3>5. thread[u].next \in Nat /\ thread[u].last \in Nat
      BY <3>2 DEF Frames
    <3>6. /\ thread[u].next <= Len(metrics) + 1 /\ thread[u].last <= Len(metrics)
      BY <3>3 DEF Fits
    <3>7. thread[u].next <= Len(metrics') + 1 /\ thread[u].last <= Len(metrics')
      BY <1>a, <3>4, <3>5, <3>6
    <3> QED
      BY <2>1, <3>1, <3>3, <3>7 DEF Fits
  <2>6. buffer' \in [id : Nat, capacity : Nat] /\ Len(metrics') <= buffer'.capacity
    <3>1. /\ buffer' = Grown(buffer)
          /\ Len(metrics') = Len(metrics) + 1
      BY <1>2, AppendGrows DEF AppendMetric
    <3>2. buffer \in [id : Nat, capacity : Nat] /\ Len(metrics) <= buffer.capacity
      BY DEF Typed
    <3>3. CASE Len(metrics) < buffer.capacity
      BY <1>a, <3>1, <3>2, <3>3 DEF Grown
    <3>4. CASE ~(Len(metrics) < buffer.capacity)
      <4>1. Len(metrics) = buffer.capacity /\ buffer.id \in Nat
        BY <1>a, <3>2, <3>4
      <4>2. CASE buffer.capacity = 0
        <5>1. buffer' = [id |-> buffer.id + 1, capacity |-> 1]
          BY <3>1, <3>4, <4>2 DEF Grown
        <5> QED
          BY <3>1, <4>1, <4>2, <5>1
      <4>3. CASE buffer.capacity # 0
        <5>1. buffer' = [id |-> buffer.id + 1, capacity |-> 2 * buffer.capacity]
          BY <3>1, <3>4, <4>3 DEF Grown
        <5> QED
          BY <1>a, <3>1, <4>1, <4>3, <5>1
      <4> QED
        BY <4>2, <4>3
    <3> QED
      BY <3>3, <3>4
  <2>7. value' \in [Metrics' -> 0 .. MaxUpdates]
    BY <1>2, <1>a, AppendGrows DEF Typed
  <2>8. writers' \in [Metrics' -> SUBSET Threads]
    BY <1>2, AppendGrows DEF Typed
  <2>9. metrics' \in Seq(Labels) /\ returned' \subseteq Metrics'
    BY <1>2, AppendGrows DEF Typed, AppendMetric
  <2>10. /\ setupFirst' = setupFirst /\ cached' = cached /\ mutex' = mutex
         /\ calls' = calls /\ got' = got /\ missed' = missed
    BY <1>2 DEF AppendMetric
  <2>11. got' \in [Labels -> SUBSET Metrics'] /\ cached' \subseteq Metrics'
    BY <2>1, <2>10 DEF Typed
  <2> QED
    BY <2>4, <2>5, <2>6, <2>7, <2>8, <2>9, <2>10, <2>11 DEF Typed
<1>3. ASSUME NEW t \in Threads, Look(t) PROVE Typed'
  <2>1. /\ Stays(t) /\ thread[t].pc = "look" /\ thread'[t].next = thread[t].next
        /\ thread'[t].pc \in {"write", "read"}
    BY <1>3, LookMoves
  <2>2. Fits(thread'[t])
    BY <2>1 DEF Stays, Kept, Fits, Walking
  <2>3. writers' \in [Metrics -> SUBSET Threads]
    <3>1. \/ writers' = writers
          \/ writers' = [writers EXCEPT ![thread[t].next] = @ \cup {t}]
      BY <1>3 DEF Look, Reached
    <3>2. writers \in [Metrics -> SUBSET Threads]
      BY DEF Typed
    <3>3. thread[t].next \in Metrics
      BY <2>1 DEF Stays, Fits, Walking
    <3>4. writers[thread[t].next] \cup {t} \subseteq Threads
      BY <3>2, <3>3
    <3> QED
      BY <3>1, <3>2, <3>3, <3>4
  <2>4. /\ setupFirst' = setupFirst /\ metrics' = metrics /\ buffer' = buffer
        /\ value' = value /\ cached' = cached /\ mutex' = mutex
        /\ returned' = returned /\ got' = got /\ missed' = missed /\ calls' = calls
    BY <1>3 DEF Look, series, history
  <2> QED
    BY <1>b, <2>1, <2>2, <2>3, <2>4 DEF Typed, Stays
<1>4. ASSUME NEW t \in Threads, Write(t) PROVE Typed'
  <2>1. /\ Stays(t) /\ thread[t].pc = "write" /\ thread'[t].next = thread[t].next
        /\ thread'[t].pc = "read"
    BY <1>4, WriteMoves
  <2>2. Fits(thread'[t]) /\ thread[t].next \in Metrics
    BY <2>1 DEF Stays, Kept, Fits, Walking
  <2>3. writers' \in [Metrics -> SUBSET Threads] /\ cached' \subseteq Metrics
    BY <1>4, <2>2 DEF Write, Typed, Reached
  <2>4. /\ setupFirst' = setupFirst /\ metrics' = metrics /\ buffer' = buffer
        /\ value' = value /\ mutex' = mutex
        /\ returned' = returned /\ got' = got /\ missed' = missed /\ calls' = calls
    BY <1>4 DEF Write, series, history
  <2> QED
    BY <1>b, <2>1, <2>2, <2>3, <2>4 DEF Typed, Stays
<1>5. ASSUME NEW t \in Threads, Search(t) PROVE Typed'
  <2>1. /\ Stays(t) /\ thread[t].pc = "search" /\ thread'[t].next = 1
        /\ thread'[t].pc = IF metrics = << >> THEN "throw" ELSE "look"
    BY <1>5, SearchMoves
  <2>2. Fits(thread'[t])
    <3>1. metrics # << >> => 1 \in Metrics
      BY <1>a, EmptySeq DEF Typed, Metrics
    <3> QED
      BY <1>a, <2>1, <3>1 DEF Stays, Kept, Fits, Walking
  <2>3. /\ setupFirst' = setupFirst /\ metrics' = metrics /\ buffer' = buffer
        /\ value' = value /\ cached' = cached /\ writers' = writers /\ mutex' = t
        /\ returned' = returned /\ got' = got /\ missed' = missed /\ calls' = calls
    BY <1>5 DEF Search, Acquire, series, cache, history
  <2> QED
    BY <1>b, <2>1, <2>2, <2>3 DEF Typed, Stays
<1>6. ASSUME NEW t \in Threads, Match(t) PROVE Typed'
  <2>1. /\ setupFirst' = setupFirst /\ metrics' = metrics /\ buffer' = buffer
        /\ value' = value /\ cached' = cached /\ writers' = writers
        /\ returned' = returned /\ missed' = missed /\ calls' = calls
    BY <1>6 DEF Match, series, cache
  <2>2. CASE Ends(t) /\ Found(t)
    <3>1. thread[t].next \in Metrics
      BY <1>6, <2>2, MatchMoves DEF Ends, Fits, Walking
    <3>2. got' \in [Labels -> SUBSET Metrics] /\ mutex' = NoThread
      BY <2>2, <3>1 DEF Found, Release, Reached, Typed
    <3> QED
      BY <1>b, <2>1, <2>2, <3>2, IdleFits DEF Typed, Ends
  <2>3. CASE /\ Stays(t)
             /\ thread'[t].next = thread[t].next + 1
             /\ thread'[t].pc = IF thread[t].next = Len(metrics) THEN "throw" ELSE "look"
             /\ mutex' = mutex /\ got' = got
    <3>1. thread[t].next \in Metrics /\ thread[t].op = "get"
      BY <1>6, <2>3, MatchMoves DEF Stays, Fits, Walking
    <3>2. /\ thread[t].next + 1 <= Len(metrics) + 1
          /\ thread[t].next # Len(metrics) => thread[t].next + 1 \in Metrics
          /\ thread[t].next \in Nat
      BY <1>a, <3>1 DEF Metrics
    <3>3. Fits(thread'[t])
      BY <2>3, <3>1, <3>2 DEF Stays, Kept, Fits, Walking
    <3> QED
      BY <1>b, <2>1, <2>3, <3>3 DEF Typed, Stays
  <2> QED
    BY <1>6, <2>2, <2>3, MatchMoves
<1>7. ASSUME NEW t \in Threads, Throw(t) PROVE Typed'
  <2>1. /\ setupFirst' = setupFirst /\ metrics' = metrics /\ buffer' = buffer
        /\ value' = value /\ cached' = cached /\ writers' = writers /\ mutex' = NoThread
        /\ returned' = returned /\ got' = got /\ calls' = calls
    BY <1>7 DEF Throw, series, cache, Release
  <2>2. Ends(t) /\ thread[t].op = "get"
    BY <1>7, ThrowMoves
  <2>3. missed' \subseteq Labels
    BY <1>7, <2>2 DEF Throw, Typed, Ends, Fits
  <2> QED
    BY <1>b, <2>1, <2>2, <2>3, IdleFits DEF Typed, Ends
<1>8. ASSUME NEW t \in Threads, Begin(t) PROVE Typed'
  <2>1. Fits(thread'[t])
    BY <1>8, <1>a, BeginMoves DEF Fits, Walking
  <2>2. /\ setupFirst' = setupFirst /\ metrics' = metrics /\ buffer' = buffer
        /\ value' = value /\ cached' = cached /\ writers' = writers /\ mutex' = mutex
        /\ returned' = returned /\ got' = got /\ missed' = missed /\ calls' = calls
    BY <1>8 DEF Begin, series, cache, history
  <2> QED
    BY <1>8, <1>b, <2>1, <2>2, BeginMoves DEF Typed
<1>9. ASSUME NEW t \in Threads, NextMetric(t) PROVE Typed'
  <2>1. /\ setupFirst' = setupFirst /\ metrics' = metrics /\ buffer' = buffer
        /\ value' = value /\ cached' = cached /\ writers' = writers /\ mutex' = mutex
        /\ returned' = returned /\ got' = got /\ missed' = missed /\ calls' = calls
    BY <1>9 DEF NextMetric, series, cache, history
  <2>2. CASE Stays(t) /\ thread'[t].next = thread[t].next /\ thread'[t].pc = "look"
    <3>1. /\ thread[t].pc = "next" /\ thread[t].op = "serialize"
          /\ thread[t].next <= thread[t].last
      BY <1>9, NextMoves
    <3>2. /\ thread[t].next \in Nat /\ thread[t].last \in Nat /\ thread[t].next >= 1
          /\ thread[t].last <= Len(metrics)
      BY <2>2, <3>1 DEF Stays, Frames, Fits
    <3>3. thread[t].next \in Metrics
      BY <1>a, <3>1, <3>2 DEF Metrics
    <3>4. Fits(thread'[t])
      BY <2>2, <3>1, <3>3 DEF Stays, Kept, Fits, Walking
    <3> QED
      BY <1>b, <2>1, <2>2, <3>4 DEF Typed, Stays
  <2>3. CASE thread' = [u \in Threads |-> Stopped]
    <3>1. Stopped \notin Frames
      BY DEF Stopped, Frames
    <3>2. Metrics' = Metrics /\ Frames' = Frames /\ States' = States
      BY <2>1 DEF Metrics, Frames, Walking, Lines, States, Idle, Stopped
    <3>3. thread' \in [Threads -> States'] /\ \A u \in Threads : thread'[u] \notin Frames'
      BY <2>3, <3>1, <3>2 DEF States
    <3> QED
      BY <2>1, <3>2, <3>3 DEF Typed
  <2> QED
    BY <1>9, <2>2, <2>3, NextMoves
<1>10. ASSUME NEW t \in Threads, PrintMetric(t) PROVE Typed'
  <2>1. /\ thread[t] \in Frames /\ Fits(thread[t])
        /\ thread[t].pc = "read" /\ thread[t].op = "serialize"
        /\ thread'[t].pc = "next" /\ thread'[t].next = thread[t].next + 1
        /\ thread'[t].last = thread[t].last /\ thread'[t].op = thread[t].op
    BY <1>10, PrintMoves
  <2>2. /\ thread[t].next \in Nat /\ thread[t].last \in Nat
        /\ thread[t].next <= thread[t].last /\ thread[t].last <= Len(metrics)
    BY <2>1 DEF Frames, Fits, Walking
  <2>3. /\ thread[t].next + 1 <= Len(metrics) + 1
        /\ thread[t].next + 1 <= thread[t].last + 1
        /\ thread[t].next + 1 >= 1
    BY <1>a, <2>2
  <2>4. Fits(thread'[t])
    BY <2>1, <2>2, <2>3 DEF Fits, Walking
  <2>5. /\ setupFirst' = setupFirst /\ metrics' = metrics /\ buffer' = buffer
        /\ value' = value /\ cached' = cached /\ writers' = writers /\ mutex' = mutex
        /\ returned' = returned /\ got' = got /\ missed' = missed /\ calls' = calls
    BY <1>10 DEF PrintMetric, series, cache, history
  <2> QED
    BY <1>10, <1>b, <2>4, <2>5, PrintMoves DEF Typed
<1>11. ASSUME NEW t \in Threads, SerializeDone(t) \/ ResetDone(t) PROVE Typed'
  <2>1. /\ setupFirst' = setupFirst /\ metrics' = metrics /\ buffer' = buffer
        /\ value' = value /\ cached' = cached /\ writers' = writers
        /\ mutex' \in {mutex, NoThread}
        /\ returned' = returned /\ got' = got /\ missed' = missed /\ calls' = calls
    BY <1>11 DEF SerializeDone, ResetDone, series, cache, history, Release
  <2>2. Ends(t)
    BY <1>11, SerializeDoneMoves, ResetDoneMoves
  <2> QED
    BY <1>b, <2>1, <2>2, IdleFits DEF Typed, Ends
<1>12. ASSUME NEW t \in Threads, ResetLock(t) PROVE Typed'
  <2>1. /\ Stays(t) /\ thread[t].pc = "reset_lock" /\ thread[t].op = "reset"
        /\ thread'[t].next = 1 /\ thread'[t].pc = "reset"
    BY <1>12, ResetLockMoves
  <2>2. Fits(thread'[t])
    BY <1>a, <2>1 DEF Stays, Kept, Fits, Walking
  <2>3. /\ setupFirst' = setupFirst /\ metrics' = metrics /\ buffer' = buffer
        /\ value' = value /\ cached' = cached /\ writers' = writers /\ mutex' = t
        /\ returned' = returned /\ got' = got /\ missed' = missed /\ calls' = calls
    BY <1>12 DEF ResetLock, Acquire, series, cache, history
  <2> QED
    BY <1>b, <2>1, <2>2, <2>3 DEF Typed, Stays
<1>13. ASSUME NEW t \in Threads, ResetMetric(t) PROVE Typed'
  <2>1. /\ Stays(t) /\ thread[t].pc = "reset" /\ thread[t].op = "reset"
        /\ thread[t].next \in Metrics
        /\ thread'[t].next = thread[t].next + 1 /\ thread'[t].pc = "reset"
    BY <1>13, ResetMetricMoves
  <2>2. thread[t].next + 1 <= Len(metrics) + 1 /\ thread[t].next + 1 >= 1
    BY <1>a, <2>1 DEF Metrics
  <2>3. Fits(thread'[t])
    BY <2>1, <2>2 DEF Stays, Kept, Fits, Walking
  <2>4. value' \in [Metrics -> 0 .. MaxUpdates]
    <3>1. value' = [value EXCEPT ![thread[t].next] = 0]
      BY <1>13 DEF ResetMetric, Reached
    <3>2. value \in [Metrics -> 0 .. MaxUpdates] /\ 0 \in 0 .. MaxUpdates
      BY <1>a DEF Typed
    <3> QED
      BY <3>1, <3>2
  <2>5. /\ setupFirst' = setupFirst /\ metrics' = metrics /\ buffer' = buffer
        /\ cached' = cached /\ writers' = writers /\ mutex' = mutex
        /\ returned' = returned /\ got' = got /\ missed' = missed /\ calls' = calls
    BY <1>13 DEF ResetMetric, cache, history
  <2> QED
    BY <1>b, <2>1, <2>3, <2>4, <2>5 DEF Typed, Stays
<1>14. ASSUME NEW m \in returned, Update(m) PROVE Typed'
  <2>1. /\ setupFirst' = setupFirst /\ metrics' = metrics /\ buffer' = buffer
        /\ cached' = cached /\ writers' = writers /\ mutex' = mutex
        /\ returned' = returned /\ got' = got /\ missed' = missed /\ calls' = calls
    BY <1>14 DEF Update, cache, history
  <2>2. m \in Metrics
    BY DEF Typed
  <2>3. value' \in [Metrics -> 0 .. MaxUpdates]
    BY <1>14, <1>a, <2>2 DEF Update, Typed
  <2>4. Metrics' = Metrics /\ Frames' = Frames /\ States' = States
    BY <2>1 DEF Metrics, Frames, Walking, Lines, States, Idle, Stopped
  <2>5. ASSUME NEW t \in Threads
        PROVE  thread'[t] \in States /\ (thread'[t] \in Frames => Fits(thread'[t]))
    <3>1. CASE In(t, "reset")
      <4>1. thread[t] \in Frames /\ Fits(thread[t])
        BY <3>1, FrameByLabel DEF In
      <4>2. thread'[t] = [thread[t] EXCEPT !.touched = @ \cup {m}]
        BY <1>14, <3>1 DEF Update
      <4>3. thread'[t] \in Frames
        BY <2>2, <4>1, <4>2 DEF Frames
      <4>4. /\ thread'[t].op = thread[t].op /\ thread'[t].pc = thread[t].pc
            /\ thread'[t].arg = thread[t].arg /\ thread'[t].next = thread[t].next
            /\ thread'[t].last = thread[t].last
        BY <4>1, <4>2 DEF Frames
      <4> QED
        BY <4>1, <4>3, <4>4 DEF Fits, States
    <3>2. CASE ~In(t, "reset")
      BY <1>14, <3>2 DEF Update, Typed
    <3> QED
      BY <3>1, <3>2
  <2>6. DOMAIN thread' = Threads /\ thread' = [t \in DOMAIN thread' |-> thread'[t]]
    BY <1>14 DEF Update
  <2>7. thread' \in [Threads -> States']
    BY <2>4, <2>5, <2>6
  <2>8. ASSUME NEW t \in Threads, thread'[t] \in Frames' PROVE Fits(thread[t])'
    BY <2>1, <2>4, <2>5, <2>8 DEF Fits
  <2> QED
    BY <2>1, <2>3, <2>4, <2>7, <2>8 DEF Typed
<1>15. CASE UNCHANGED vars
  <2>1. Metrics' = Metrics /\ Frames' = Frames /\ States' = States
    BY <1>15 DEF vars, Metrics, Frames, Walking, Lines, States, Idle, Stopped
  <2>2. ASSUME NEW t \in Threads, thread'[t] \in Frames PROVE Fits(thread[t])'
    BY <1>15, <2>1, <2>2 DEF vars, Typed, Fits
  <2> QED
    BY <1>15, <2>1, <2>2 DEF vars, Typed
<1> QED
  BY <1>1, <1>2, <1>3, <1>4, <1>5, <1>6, <1>7, <1>8, <1>9, <1>10, <1>11, <1>12,
     <1>13, <1>14, <1>15
  DEF Next, Step, Finished

LEMMA AlwaysTyped == Spec => []Typed
BY TypedInit, TypedStep, PTL DEF Spec

(* Every variable of a family keeps a value of its kind, and the vector    *)
(* fits its buffer.                                                        *)
THEOREM TypeCorrect == Spec => []TypeOK
BY AlwaysTyped, TypedIsTypeOK, PTL

-----------------------------------------------------------------------------
(* Who is inside the mutex, who writes a text, and what the discipline     *)
(* keeps apart.                                                            *)

(* A thread is inside the mutex in all of get_metric but its beginning,    *)
(* and in the loop of reset; add_metric takes and leaves it in one step.   *)
Inside(t) == (In(t, "get") /\ ~At(t, "search")) \/ At(t, "reset")

MutexOwned == \A t \in Threads : Inside(t) => mutex = t

(* Only a thread that has found no text writes one, of the metric it has   *)
(* reached.                                                                *)
WritersAtWork ==
  \A m \in Metrics : \A u \in writers[m] :
    \/ At(u, "write") /\ Reached(u) = m
    \/ \A v \in Threads : At(v, "crashed")

(* The discipline.                                                         *)
Separate ==
  setupFirst =>
    \A t \in Threads : \A u \in Threads \ {t} :
      In(t, "serialize") => thread[u].op \notin Excluded("serialize")

LEMMA StopIdle ==
  /\ Idle.op = "none" /\ Idle.pc = "idle"
  /\ Stopped.op = "none" /\ Stopped.pc = "crashed"
BY DEF Idle, Stopped

(* What an update of a metric does to the threads.                         *)
LEMMA UpdateMoves ==
  ASSUME Typed, NEW m \in returned, Update(m), NEW t \in Threads
  PROVE  /\ thread'[t].op = thread[t].op /\ thread'[t].pc = thread[t].pc
         /\ thread'[t].arg = thread[t].arg /\ thread'[t].next = thread[t].next
         /\ thread'[t].known = thread[t].known
         /\ ~In(t, "reset") => thread'[t] = thread[t]
         /\ In(t, "reset") => thread'[t].touched = thread[t].touched \cup {m}
<1>1. CASE In(t, "reset")
  <2>1. thread[t] \in Frames
    BY <1>1, FrameByLabel DEF In
  <2>2. thread'[t] = [thread[t] EXCEPT !.touched = @ \cup {m}]
    BY <1>1 DEF Update
  <2> QED
    BY <1>1, <2>1, <2>2 DEF Frames
<1>2. CASE ~In(t, "reset")
  <2>1. thread'[t] = thread[t]
    BY <1>2 DEF Update
  <2> QED
    BY <1>2, <2>1
<1> QED
  BY <1>1, <1>2

LEMMA MutexOwnedStep == Typed /\ MutexOwned /\ [Next]_vars => MutexOwned'
<1> SUFFICES ASSUME Typed, MutexOwned, [Next]_vars PROVE MutexOwned'
  OBVIOUS
<1>a. ASSUME NEW t \in Threads, Others(t), mutex' = mutex,
             Inside(t)' => Inside(t)
      PROVE  MutexOwned'
  BY <1>a DEF MutexOwned, Inside, Others, In, At
<1>b. ASSUME NEW t \in Threads, Others(t), mutex \in {NoThread, t}, mutex' = t
      PROVE  MutexOwned'
  BY <1>b, MetricFamilyAssumption DEF MutexOwned, Inside, Others, In, At
<1>c. ASSUME NEW t \in Threads, Ends(t), Inside(t)
      PROVE  MutexOwned'
  <2>1. mutex = t
    BY <1>c DEF MutexOwned
  <2>2. ~Inside(t)'
    BY <1>c, StopIdle DEF Ends, Inside, In, At
  <2>3. ASSUME NEW u \in Threads \ {t} PROVE ~Inside(u)'
    BY <1>c, <2>1, <2>3 DEF MutexOwned, Inside, Ends, Others, In, At
  <2> QED
    BY <2>2, <2>3 DEF MutexOwned
<1>1. ASSUME NEW t \in Threads, Operation(t) PROVE MutexOwned'
  <2>1. ASSUME NEW call \in {"add", "get", "serialize", "reset"},
               NEW label \in {"append", "search", "begin", "reset_lock"},
               NEW l \in Labels \cup {NoLabels}, Call(t, call, label, l),
               call = "get" => label = "search"
        PROVE  MutexOwned'
    <3>1. Others(t) /\ thread'[t] = Frame(call, label, l) /\ mutex' = mutex
      BY <2>1, CallMoves DEF Call
    <3>2. ~Inside(t)'
      BY <2>1, <3>1 DEF Inside, Frame, In, At
    <3> QED
      BY <1>a, <3>1, <3>2
  <2> QED
    BY <1>1, <2>1 DEF Operation, Add, Get, Serialize, Reset
<1>2. ASSUME NEW t \in Threads, AppendMetric(t) PROVE MutexOwned'
  <2>1. Others(t) /\ thread'[t] = Idle /\ mutex' = mutex
    BY <1>2, AppendMoves DEF AppendMetric, Typed
  <2> QED
    BY <1>a, <2>1, StopIdle DEF Inside, In, At
<1>3. ASSUME NEW t \in Threads, Look(t) \/ Write(t) PROVE MutexOwned'
  <2>1. /\ Stays(t) /\ mutex' = mutex
        /\ thread[t].pc \in {"look", "write"}
        /\ thread'[t].pc \in {"write", "read"}
    BY <1>3, LookMoves, WriteMoves DEF Look, Write
  <2>2. Inside(t)' => Inside(t)
    BY <2>1 DEF Inside, Stays, Kept, In, At
  <2> QED
    BY <1>a, <2>1, <2>2 DEF Stays
<1>4. ASSUME NEW t \in Threads, Search(t) \/ ResetLock(t) PROVE MutexOwned'
  BY <1>4, <1>b, SearchMoves, ResetLockMoves DEF Search, ResetLock, Acquire, Stays
<1>5. ASSUME NEW t \in Threads, Match(t) PROVE MutexOwned'
  <2>1. Inside(t)
    BY <1>5, MatchMoves DEF Inside, In, At
  <2>2. CASE Ends(t)
    BY <1>c, <2>1, <2>2
  <2>3. CASE Stays(t) /\ mutex' = mutex
    BY <1>a, <2>1, <2>3 DEF Stays
  <2> QED
    BY <1>5, <2>2, <2>3, MatchMoves
<1>6. ASSUME NEW t \in Threads, Throw(t) \/ ResetDone(t) PROVE MutexOwned'
  <2>1. Ends(t) /\ Inside(t)
    BY <1>6, ThrowMoves, ResetDoneMoves DEF Inside, In, At
  <2> QED
    BY <1>c, <2>1
<1>7. ASSUME NEW t \in Threads, Begin(t) \/ PrintMetric(t) PROVE MutexOwned'
  <2>1. /\ Others(t) /\ thread'[t].pc = "next" /\ thread'[t].op = "serialize"
        /\ mutex' = mutex
    BY <1>7, BeginMoves, PrintMoves DEF Begin, PrintMetric
  <2> QED
    BY <1>a, <2>1 DEF Inside, In, At
<1>8. ASSUME NEW t \in Threads, NextMetric(t) PROVE MutexOwned'
  <2>1. mutex' = mutex
    BY <1>8 DEF NextMetric
  <2>2. CASE Stays(t) /\ thread'[t].pc = "look"
    <3>1. ~Inside(t)'
      BY <1>8, <2>2, NextMoves DEF Inside, Stays, Kept, In, At
    <3> QED
      BY <1>a, <2>1, <2>2, <3>1 DEF Stays
  <2>3. CASE thread' = [u \in Threads |-> Stopped]
    BY <2>3, StopIdle DEF MutexOwned, Inside, In, At
  <2> QED
    BY <1>8, <2>2, <2>3, NextMoves
<1>9. ASSUME NEW t \in Threads, SerializeDone(t) PROVE MutexOwned'
  <2>1. Others(t) /\ thread'[t] = Idle /\ mutex' = mutex
    BY <1>9, SerializeDoneMoves DEF SerializeDone, Ends
  <2> QED
    BY <1>a, <2>1, StopIdle DEF Inside, In, At
<1>10. ASSUME NEW t \in Threads, ResetMetric(t) PROVE MutexOwned'
  <2>1. Stays(t) /\ Inside(t) /\ mutex' = mutex
    BY <1>10, ResetMetricMoves DEF ResetMetric, Inside, At
  <2> QED
    BY <1>a, <2>1 DEF Stays
<1>11. ASSUME NEW m \in returned, Update(m) PROVE MutexOwned'
  <2>1. \A t \in Threads : Inside(t)' <=> Inside(t)
    BY <1>11, UpdateMoves DEF Inside, In, At
  <2> QED
    BY <1>11, <2>1 DEF MutexOwned, Update
<1>12. CASE UNCHANGED vars
  BY <1>12 DEF vars, MutexOwned, Inside, In, At
<1> QED
  BY <1>1, <1>2, <1>3, <1>4, <1>5, <1>6, <1>7, <1>8, <1>9, <1>10, <1>11, <1>12
  DEF Next, Step, Finished

(* The threads that search for a metric or reset the family hold its       *)
(* mutex, so there is one of them at a time.                               *)
THEOREM MutexIsOwned == Spec => []MutexOwned
<1>1. Init => MutexOwned
  BY StopIdle DEF Init, MutexOwned, Inside, In, At
<1> QED
  BY <1>1, MutexOwnedStep, AlwaysTyped, PTL DEF Spec

LEMMA WritersStep == Typed /\ WritersAtWork /\ [Next]_vars => WritersAtWork'
<1> SUFFICES ASSUME Typed, WritersAtWork, [Next]_vars PROVE WritersAtWork'
  OBVIOUS
(* A thread that acts and is not writing is no writer.                     *)
<1>a. ASSUME NEW t \in Threads, Others(t), metrics' = metrics, writers' = writers,
             thread[t].pc \notin {"write", "crashed"}
      PROVE  WritersAtWork'
  <2>1. ASSUME NEW m \in Metrics, NEW u \in writers[m] PROVE u # t /\ u \in Threads
    BY <1>a DEF WritersAtWork, Typed, At
  <2> QED
    BY <1>a, <2>1 DEF WritersAtWork, Others, Metrics, At, Reached
<1>1. ASSUME NEW t \in Threads, Operation(t) PROVE WritersAtWork'
  <2>1. ASSUME NEW call \in {"add", "get", "serialize", "reset"},
               NEW label \in {"append", "search", "begin", "reset_lock"},
               NEW l \in Labels \cup {NoLabels}, Call(t, call, label, l)
        PROVE  WritersAtWork'
    <3>1. /\ Others(t) /\ thread[t].pc = "idle" /\ metrics' = metrics
          /\ writers' = writers
      BY <2>1, CallMoves, StopIdle DEF Call, series, cache
    <3> QED
      BY <1>a, <3>1
  <2> QED
    BY <1>1, <2>1 DEF Operation, Add, Get, Serialize, Reset
<1>2. ASSUME NEW t \in Threads, AppendMetric(t) PROVE WritersAtWork'
  <2>1. Others(t) /\ thread[t].pc = "append"
    BY <1>2, AppendMoves
  <2>2. ASSUME NEW m \in Metrics', NEW u \in writers'[m]
        PROVE  m \in Metrics /\ u \in writers[m]
    BY <1>2, <2>2, AppendGrows
  <2>3. ASSUME NEW m \in Metrics, NEW u \in writers[m] PROVE u # t /\ u \in Threads
    BY <2>1 DEF WritersAtWork, Typed, At
  <2> QED
    BY <2>1, <2>2, <2>3 DEF WritersAtWork, Others, At, Reached
<1>3. ASSUME NEW t \in Threads, Look(t) PROVE WritersAtWork'
  <2>1. /\ Stays(t) /\ thread[t].pc = "look" /\ thread'[t].next = thread[t].next
        /\ metrics' = metrics
    BY <1>3, LookMoves DEF Look, series
  <2>2. CASE writers' = writers
    BY <1>a, <2>1, <2>2 DEF Stays
  <2>3. CASE /\ writers' = [writers EXCEPT ![Reached(t)] = @ \cup {t}]
             /\ Goto(t, "write")
    <3>1. thread'[t].pc = "write" /\ Metrics' = Metrics
      BY <2>1, <2>3 DEF Goto, Typed, Stays, Frames, Metrics
    <3>2. ASSUME NEW m \in Metrics, NEW u \in writers'[m]
          PROVE  \/ u = t /\ m = Reached(t)
                 \/ u \in writers[m]
      BY <2>3, <3>2 DEF Typed
    <3>3. ASSUME NEW m \in Metrics, NEW u \in writers[m] PROVE u # t /\ u \in Threads
      BY <2>1 DEF WritersAtWork, Typed, At
    <3> QED
      BY <2>1, <3>1, <3>2, <3>3 DEF WritersAtWork, Stays, Others, At, Reached
  <2> QED
    BY <1>3, <2>2, <2>3 DEF Look
<1>4. ASSUME NEW t \in Threads, Write(t) PROVE WritersAtWork'
  <2>1. /\ Stays(t) /\ thread[t].pc = "write" /\ metrics' = metrics
        /\ writers' = [writers EXCEPT ![Reached(t)] = @ \ {t}]
    BY <1>4, WriteMoves DEF Write, series
  <2>2. Metrics' = Metrics
    BY <2>1 DEF Metrics
  <2>3. ASSUME NEW m \in Metrics, NEW u \in writers'[m]
        PROVE  u \in writers[m] /\ u \in Threads /\ (u = t => m # Reached(t))
    BY <2>1, <2>3 DEF Typed
  <2>4. ASSUME NEW m \in Metrics, NEW u \in writers'[m] PROVE u # t
    BY <2>1, <2>3, <2>4 DEF WritersAtWork, At
  <2> QED
    BY <2>1, <2>2, <2>3, <2>4 DEF WritersAtWork, Stays, Others, At, Reached
<1>5. ASSUME NEW t \in Threads,
             \/ Search(t) \/ Match(t) \/ Throw(t) \/ Begin(t) \/ PrintMetric(t)
             \/ SerializeDone(t) \/ ResetLock(t) \/ ResetMetric(t) \/ ResetDone(t)
      PROVE  WritersAtWork'
  <2>1. metrics' = metrics /\ writers' = writers
    BY <1>5 DEF Search, Match, Throw, Begin, PrintMetric, SerializeDone, ResetLock,
                ResetMetric, ResetDone, series, cache
  <2>2. thread[t].pc \in {"search", "read", "throw", "begin", "next", "reset_lock", "reset"}
    BY <1>5 DEF Search, Match, Throw, Begin, PrintMetric, SerializeDone, ResetLock,
                ResetMetric, ResetDone, ScrapeOver, ResetOver, At
  <2>3. Others(t)
    BY <1>5, SearchMoves, MatchMoves, ThrowMoves, BeginMoves, PrintMoves,
       SerializeDoneMoves, ResetLockMoves, ResetMetricMoves, ResetDoneMoves
    DEF Stays, Ends
  <2> QED
    BY <1>a, <2>1, <2>2, <2>3
<1>6. ASSUME NEW t \in Threads, NextMetric(t) PROVE WritersAtWork'
  <2>1. metrics' = metrics /\ writers' = writers /\ thread[t].pc = "next"
    BY <1>6, NextMoves DEF NextMetric, series, cache
  <2>2. CASE Stays(t)
    BY <1>a, <2>1, <2>2 DEF Stays
  <2>3. CASE thread' = [u \in Threads |-> Stopped]
    <3>1. Metrics' = Metrics
      BY <2>1 DEF Metrics
    <3> QED
      BY <2>1, <2>3, <3>1, StopIdle DEF WritersAtWork, Typed, At
  <2> QED
    BY <1>6, <2>2, <2>3, NextMoves
<1>7. ASSUME NEW m \in returned, Update(m) PROVE WritersAtWork'
  <2>1. metrics' = metrics /\ writers' = writers
    BY <1>7 DEF Update, cache
  <2>2. \A t \in Threads : thread'[t].pc = thread[t].pc /\ thread'[t].next = thread[t].next
    BY <1>7, UpdateMoves
  <2> QED
    BY <2>1, <2>2 DEF WritersAtWork, Typed, Metrics, At, Reached
<1>8. CASE UNCHANGED vars
  BY <1>8 DEF vars, WritersAtWork, Metrics, At, Reached
<1> QED
  BY <1>1, <1>2, <1>3, <1>4, <1>5, <1>6, <1>7, <1>8 DEF Next, Step, Finished

LEMMA AlwaysWritersAtWork == Spec => []WritersAtWork
<1>1. Init => WritersAtWork
  BY DEF Init, WritersAtWork, Metrics
<1> QED
  BY <1>1, WritersStep, AlwaysTyped, PTL DEF Spec

(* A call that has begun stays the call it is until it ends.               *)
LEMMA StepKeepsCalls ==
  ASSUME Typed, NEW t \in Threads, Step(t), NEW u \in Threads
  PROVE  /\ setupFirst' = setupFirst
         /\ thread'[u].op = thread[u].op \/ thread'[u].op = "none"
<1>1. setupFirst' = setupFirst
  BY DEF Step, AppendMetric, Look, Write, Search, Match, Throw, Begin, NextMetric,
         PrintMetric, SerializeDone, ResetLock, ResetMetric, ResetDone, series
<1>2. CASE u # t /\ Others(t)
  BY <1>1, <1>2 DEF Others
<1>3. CASE thread' = [v \in Threads |-> Stopped]
  BY <1>1, <1>3, StopIdle
<1>4. CASE u = t /\ (Stays(t) \/ Ends(t) \/ thread'[t] = Idle)
  BY <1>1, <1>4, StopIdle DEF Stays, Kept, Ends
<1>5. CASE Look(t) \/ Write(t) \/ Search(t) \/ Match(t) \/ Throw(t) \/ SerializeDone(t)
           \/ ResetLock(t) \/ ResetMetric(t) \/ ResetDone(t)
  <2>1. Stays(t) \/ Ends(t)
    BY <1>5, LookMoves, WriteMoves, SearchMoves, MatchMoves, ThrowMoves,
       SerializeDoneMoves, ResetLockMoves, ResetMetricMoves, ResetDoneMoves
  <2> QED
    BY <1>2, <1>4, <2>1 DEF Stays, Ends
<1>6. CASE AppendMetric(t)
  <2>1. Others(t) /\ thread'[t] = Idle
    BY <1>6, AppendMoves DEF Typed
  <2> QED
    BY <1>2, <1>4, <2>1
<1>7. CASE Begin(t) \/ PrintMetric(t)
  <2>1. Others(t) /\ thread'[t].op = thread[t].op
    BY <1>7, BeginMoves, PrintMoves
  <2> QED
    BY <1>1, <1>2, <2>1
<1>8. CASE NextMetric(t)
  BY <1>2, <1>3, <1>4, <1>8, NextMoves DEF Stays
<1> QED
  BY <1>5, <1>6, <1>7, <1>8 DEF Step

LEMMA SeparateStep == Typed /\ Separate /\ [Next]_vars => Separate'
<1> SUFFICES ASSUME Typed, Separate, [Next]_vars PROVE Separate'
  OBVIOUS
<1>1. ASSUME NEW t \in Threads, Operation(t) PROVE Separate'
  <2>1. ASSUME NEW call \in {"add", "get", "serialize", "reset"},
               NEW label \in {"append", "search", "begin", "reset_lock"},
               NEW l \in Labels \cup {NoLabels}, Call(t, call, label, l)
        PROVE  Separate'
    <3>1. Others(t) /\ thread'[t] = Frame(call, label, l) /\ setupFirst' = setupFirst
      BY <2>1, CallMoves DEF Call, series
    <3>2. thread'[t].op = call
      BY <3>1 DEF Frame
    <3>3. setupFirst => \A u \in Threads : thread[u].op \notin Excluded(call)
      BY <2>1 DEF Call
    <3>4. CASE call = "serialize"
      BY <3>1, <3>2, <3>3, <3>4 DEF Separate, Excluded, Others, In
    <3>5. CASE call \in {"add", "get"}
      BY <3>1, <3>2, <3>3, <3>5 DEF Separate, Excluded, Others, In
    <3>6. CASE call = "reset"
      BY <3>1, <3>2, <3>6 DEF Separate, Excluded, Others, In
    <3> QED
      BY <3>4, <3>5, <3>6
  <2> QED
    BY <1>1, <2>1 DEF Operation, Add, Get, Serialize, Reset
<1>2. ASSUME NEW t \in Threads, Step(t) PROVE Separate'
  <2>1. \A u \in Threads : thread'[u].op = thread[u].op \/ thread'[u].op = "none"
    BY <1>2, StepKeepsCalls
  <2>2. setupFirst' = setupFirst
    BY <1>2, StepKeepsCalls
  <2> QED
    BY <2>1, <2>2 DEF Separate, Excluded, In
<1>3. ASSUME NEW m \in returned, Update(m) PROVE Separate'
  <2>1. setupFirst' = setupFirst /\ \A t \in Threads : thread'[t].op = thread[t].op
    BY <1>3, UpdateMoves DEF Update
  <2> QED
    BY <2>1 DEF Separate, Excluded, In
<1>4. CASE UNCHANGED vars
  BY <1>4 DEF vars, Separate, Excluded, In
<1> QED
  BY <1>1, <1>2, <1>3, <1>4 DEF Next, Finished

LEMMA AlwaysSeparate == Spec => []Separate
<1>1. Init => Separate
  BY StopIdle DEF Init, Separate, In
<1> QED
  BY <1>1, SeparateStep, AlwaysTyped, PTL DEF Spec

(* So a reader that keeps to the discipline reads whole texts.             *)
LEMMA NobodyWrites ==
  ASSUME Typed, MutexOwned, WritersAtWork, Separate, setupFirst,
         NEW t \in Threads, At(t, "read")
  PROVE  writers[Reached(t)] = {}
<1>1. thread[t] \in Frames /\ Fits(thread[t])
  BY FrameByLabel DEF At
<1>2. Reached(t) \in Metrics /\ thread[t].op \in {"get", "serialize"}
  BY <1>1 DEF Fits, Walking, At, Reached
<1>3. ASSUME NEW u \in writers[Reached(t)] PROVE FALSE
  <2>1. u \in Threads
    BY <1>2, <1>3 DEF Typed
  <2>2. At(u, "write") /\ Reached(u) = Reached(t)
    BY <1>2, <1>3 DEF WritersAtWork, At
  <2>3. u # t /\ thread[u] \in Frames /\ Fits(thread[u])
    BY <2>1, <2>2, FrameByLabel DEF At
  <2>4. thread[u].op \in {"get", "serialize"}
    BY <2>2, <2>3 DEF Fits, Walking, At
  <2>5. ~ (In(t, "get") /\ In(u, "get"))
    BY <2>1, <2>2, <2>3 DEF MutexOwned, Inside, At
  <2> QED
    BY <1>2, <2>1, <2>3, <2>4, <2>5 DEF Separate, Excluded, In
<1> QED
  BY <1>3

-----------------------------------------------------------------------------
(* Resets.                                                                 *)

(* The metrics that the loop has passed are zero but for those updated     *)
(* since the call.                                                         *)
Zeroed(t) ==
  At(t, "reset") =>
    \A m \in thread[t].known :
      m < Reached(t) /\ value[m] # 0 => m \in thread[t].touched

ZeroedSoFar == \A t \in Threads : Zeroed(t)

LEMMA ZeroedIsResetComplete == Typed /\ ZeroedSoFar => ResetComplete
<1> SUFFICES ASSUME Typed, ZeroedSoFar, NEW t \in Threads, ResetOver(t),
                    NEW m \in thread[t].known, value[m] # 0
             PROVE  m \in thread[t].touched
  BY DEF ResetComplete
<1>1. thread[t] \in Frames /\ At(t, "reset") /\ Reached(t) > Len(metrics)
  BY FrameByLabel DEF ResetOver, At
<1>2. m \in 1 .. Len(metrics) /\ Len(metrics) \in Nat /\ Reached(t) \in Nat
  BY <1>1 DEF Frames, Metrics, Typed, Reached
<1>3. m < Reached(t)
  BY <1>1, <1>2
<1> QED
  BY <1>1, <1>3 DEF ZeroedSoFar, Zeroed

LEMMA ZeroedStep == Typed /\ ZeroedSoFar /\ [Next]_vars => ZeroedSoFar'
<1> SUFFICES ASSUME Typed, ZeroedSoFar, [Next]_vars PROVE ZeroedSoFar'
  OBVIOUS
<1>a. ASSUME NEW t \in Threads, Others(t), Zeroed(t)',
             \A m \in Metrics : value'[m] \in {0, value[m]}
      PROVE  ZeroedSoFar'
  <2>1. ASSUME NEW u \in Threads \ {t} PROVE Zeroed(u)'
    <3>1. SUFFICES ASSUME At(u, "reset"), NEW m \in thread[u].known,
                          m < Reached(u), value'[m] # 0
                   PROVE  m \in thread[u].touched
      BY <1>a DEF Zeroed, Others, At, Reached
    <3>2. m \in Metrics
      BY <3>1, FrameByLabel DEF Frames, At
    <3>3. value[m] # 0
      BY <1>a, <3>1, <3>2
    <3> QED
      BY <3>1, <3>3 DEF ZeroedSoFar, Zeroed
  <2> QED
    BY <1>a, <2>1 DEF ZeroedSoFar
<1>1. ASSUME NEW t \in Threads, Operation(t) PROVE ZeroedSoFar'
  <2>1. ASSUME NEW call \in {"add", "get", "serialize", "reset"},
               NEW label \in {"append", "search", "begin", "reset_lock"},
               NEW l \in Labels \cup {NoLabels}, Call(t, call, label, l)
        PROVE  ZeroedSoFar'
    <3>1. Others(t) /\ thread'[t] = Frame(call, label, l) /\ value' = value
      BY <2>1, CallMoves DEF Call, series
    <3>2. Zeroed(t)'
      BY <3>1 DEF Frame, Zeroed, At
    <3> QED
      BY <1>a, <3>1, <3>2
  <2> QED
    BY <1>1, <2>1 DEF Operation, Add, Get, Serialize, Reset
<1>2. ASSUME NEW t \in Threads, AppendMetric(t) PROVE ZeroedSoFar'
  <2>1. Others(t) /\ thread'[t] = Idle
    BY <1>2, AppendMoves DEF Typed
  <2>2. \A m \in Metrics : value'[m] = value[m]
    BY <1>2, AppendGrows
  <2> QED
    BY <1>a, <2>1, <2>2, StopIdle DEF Zeroed, At
<1>3. ASSUME NEW t \in Threads,
             \/ Look(t) \/ Write(t) \/ Search(t) \/ Match(t) \/ Throw(t) \/ Begin(t)
             \/ PrintMetric(t) \/ SerializeDone(t) \/ ResetDone(t)
      PROVE  ZeroedSoFar'
  <2>1. value' = value
    BY <1>3 DEF Look, Write, Search, Match, Throw, Begin, PrintMetric, SerializeDone,
                ResetDone, series
  <2>2. CASE Look(t) \/ Write(t) \/ Search(t)
    <3>1. Others(t) /\ thread'[t].pc # "reset"
      BY <2>2, LookMoves, WriteMoves, SearchMoves DEF Stays
    <3> QED
      BY <1>a, <2>1, <3>1 DEF Zeroed, At
  <2>3. CASE Match(t)
    <3>1. Others(t) /\ thread'[t].pc # "reset"
      BY <2>3, MatchMoves, StopIdle DEF Stays, Ends
    <3> QED
      BY <1>a, <2>1, <3>1 DEF Zeroed, At
  <2>4. CASE Throw(t) \/ SerializeDone(t) \/ ResetDone(t)
    <3>1. Others(t) /\ thread'[t].pc # "reset"
      BY <2>4, ThrowMoves, SerializeDoneMoves, ResetDoneMoves, StopIdle DEF Ends
    <3> QED
      BY <1>a, <2>1, <3>1 DEF Zeroed, At
  <2>5. CASE Begin(t) \/ PrintMetric(t)
    <3>1. Others(t) /\ thread'[t].pc # "reset"
      BY <2>5, BeginMoves, PrintMoves
    <3> QED
      BY <1>a, <2>1, <3>1 DEF Zeroed, At
  <2> QED
    BY <1>3, <2>2, <2>3, <2>4, <2>5
<1>4. ASSUME NEW t \in Threads, NextMetric(t) PROVE ZeroedSoFar'
  <2>1. value' = value
    BY <1>4 DEF NextMetric, series
  <2>2. CASE Stays(t) /\ thread'[t].pc = "look"
    BY <1>a, <2>1, <2>2 DEF Stays, Zeroed, At
  <2>3. CASE thread' = [u \in Threads |-> Stopped]
    BY <2>3, StopIdle DEF ZeroedSoFar, Zeroed, At
  <2> QED
    BY <1>4, <2>2, <2>3, NextMoves
<1>5. ASSUME NEW t \in Threads, ResetLock(t) PROVE ZeroedSoFar'
  <2>1. Stays(t) /\ thread'[t].next = 1 /\ value' = value
    BY <1>5, ResetLockMoves DEF ResetLock, series
  <2>2. \A m \in thread'[t].known : m \in Metrics
    BY <2>1 DEF Stays, Frames
  <2>3. Zeroed(t)'
    BY <2>1, <2>2 DEF Zeroed, Reached, Metrics
  <2> QED
    BY <1>a, <2>1, <2>3 DEF Stays
<1>6. ASSUME NEW t \in Threads, ResetMetric(t) PROVE ZeroedSoFar'
  <2>1. /\ Stays(t) /\ thread[t].pc = "reset" /\ thread[t].next \in Metrics
        /\ thread'[t].next = thread[t].next + 1
        /\ value' = [value EXCEPT ![thread[t].next] = 0]
    BY <1>6, ResetMetricMoves DEF ResetMetric, Reached
  <2>2. \A m \in Metrics : value'[m] = IF m = thread[t].next THEN 0 ELSE value[m]
    BY <2>1 DEF Typed
  <2>3. ASSUME NEW m \in thread[t].known, m < thread[t].next + 1, value'[m] # 0
        PROVE  m \in thread[t].touched
    <3>1. m \in Metrics
      BY <2>1 DEF Stays, Frames
    <3>2. m # thread[t].next /\ value[m] # 0
      BY <2>2, <2>3, <3>1
    <3>3. m < thread[t].next
      BY <2>1, <2>3, <3>1, <3>2 DEF Metrics
    <3> QED
      BY <2>1, <3>2, <3>3 DEF ZeroedSoFar, Zeroed, Reached, At
  <2>4. Zeroed(t)'
    BY <2>1, <2>3 DEF Zeroed, Stays, Kept, Reached
  <2> QED
    BY <1>a, <2>1, <2>2, <2>4 DEF Stays
<1>7. ASSUME NEW m \in returned, Update(m), NEW t \in Threads PROVE Zeroed(t)'
  <2>1. SUFFICES ASSUME At(t, "reset"), NEW k \in thread[t].known,
                        k < Reached(t), value'[k] # 0
                 PROVE  k \in thread'[t].touched
    BY <1>7, UpdateMoves DEF Zeroed, At, Reached
  <2>2. thread'[t].touched = thread[t].touched \cup {m} /\ k \in Metrics
    <3>1. thread[t] \in Frames /\ Fits(thread[t]) /\ thread[t].pc = "reset"
      BY <2>1, FrameByLabel DEF At
    <3>2. In(t, "reset")
      BY <3>1 DEF Fits, In
    <3> QED
      BY <1>7, <3>1, <3>2, UpdateMoves, <2>1 DEF Frames
  <2>3. CASE k = m
    BY <2>2, <2>3
  <2>4. CASE k # m
    <3>1. value'[k] = value[k]
      BY <1>7, <2>2, <2>4 DEF Update, Typed
    <3> QED
      BY <2>1, <2>2, <3>1 DEF ZeroedSoFar, Zeroed
  <2> QED
    BY <2>3, <2>4
<1>8. CASE UNCHANGED vars
  BY <1>8 DEF vars, ZeroedSoFar, Zeroed, At, Reached
<1> QED
  BY <1>1, <1>2, <1>3, <1>4, <1>5, <1>6, <1>7, <1>8
  DEF Next, Step, Finished, ZeroedSoFar

LEMMA AlwaysZeroed == Spec => []ZeroedSoFar
<1>1. Init => ZeroedSoFar
  BY StopIdle DEF Init, ZeroedSoFar, Zeroed, At
<1> QED
  BY <1>1, ZeroedStep, AlwaysTyped, PTL DEF Spec

(* A reset that is over has zeroed every metric added before it was called *)
(* but those updated since (metric_family.hpp:176), whatever is added and  *)
(* scraped beside it.                                                      *)
THEOREM ResetsComplete == Spec => []ResetComplete
BY AlwaysTyped, AlwaysZeroed, ZeroedIsResetComplete, PTL

-----------------------------------------------------------------------------
(* Lookups of disciplined callers.                                         *)

(* A lookup has passed only metrics with other labels.                     *)
Passed(t) ==
  /\ In(t, "get") /\ thread[t].pc \in Walking =>
       \A m \in Metrics : m < Reached(t) => metrics[m] # thread[t].arg
  /\ At(t, "throw") => \A m \in Metrics : metrics[m] # thread[t].arg

(* The first metric with some labels is the one that is found, and one     *)
(* that is there is found.                                                 *)
Searched ==
  setupFirst =>
    /\ \A t \in Threads : Passed(t)
    /\ \A l \in Labels : \A m \in got[l] :
         metrics[m] = l /\ \A k \in Metrics : k < m => metrics[k] # l
    /\ missed = {}

LEMMA SearchedIsStable == Typed /\ Searched => GetStable /\ AddedIsFound
<1> SUFFICES ASSUME Typed, Searched, setupFirst, NEW l \in Labels
             PROVE  Cardinality(got[l]) <= 1 /\ missed = {}
  BY DEF GetStable, AddedIsFound, Searched
<1>1. ASSUME NEW m \in got[l], NEW k \in got[l] PROVE m = k
  <2>1. m \in Metrics /\ k \in Metrics
    BY DEF Typed
  <2>2. ~ (k < m) /\ ~ (m < k)
    BY <2>1 DEF Searched
  <2> QED
    BY <2>1, <2>2 DEF Metrics
<1>2. CASE got[l] = {}
  BY <1>2, FS_EmptySet DEF Searched
<1>3. CASE got[l] # {}
  <2>1. PICK m \in got[l] : got[l] = {m}
    BY <1>1, <1>3
  <2> QED
    BY <2>1, FS_Singleton DEF Searched
<1> QED
  BY <1>2, <1>3

LEMMA SearchedStep ==
  Typed /\ MutexOwned /\ WritersAtWork /\ Separate /\ Searched /\ [Next]_vars => Searched'
<1> SUFFICES ASSUME Typed, MutexOwned, WritersAtWork, Separate, Searched, [Next]_vars,
                    setupFirst'
             PROVE  /\ \A t \in Threads : Passed(t)'
                    /\ \A l \in Labels : \A m \in got'[l] :
                         metrics'[m] = l /\ \A k \in Metrics' : k < m => metrics'[k] # l
                    /\ missed' = {}
  BY DEF Searched
<1> DEFINE First(l, m) == metrics[m] = l /\ \A k \in Metrics : k < m => metrics[k] # l
<1>a. setupFirst' = setupFirst
  <2>1. ASSUME NEW t \in Threads, Operation(t) PROVE setupFirst' = setupFirst
    BY <2>1 DEF Operation, Add, Get, Serialize, Reset, Call, series
  <2>2. ASSUME NEW t \in Threads, Step(t) PROVE setupFirst' = setupFirst
    BY <2>2, StepKeepsCalls
  <2>3. CASE (\E m \in returned : Update(m)) \/ UNCHANGED vars
    BY <2>3 DEF Update, vars
  <2> QED
    BY <2>1, <2>2, <2>3 DEF Next, Finished
<1>b. /\ \A t \in Threads : Passed(t)
      /\ \A l \in Labels : \A m \in got[l] : First(l, m)
      /\ missed = {}
  BY <1>a DEF Searched
<1>c. ASSUME NEW t \in Threads, Others(t), metrics' = metrics,
             got' = got, missed' = missed, Passed(t)'
      PROVE  Searched'
  BY <1>b, <1>c DEF Searched, Passed, Others, In, At, Reached, Metrics
<1>1. ASSUME NEW t \in Threads, Operation(t) PROVE Searched'
  <2>1. ASSUME NEW call \in {"add", "get", "serialize", "reset"},
               NEW label \in {"append", "search", "begin", "reset_lock"},
               NEW l \in Labels \cup {NoLabels}, Call(t, call, label, l)
        PROVE  Searched'
    <3>1. /\ Others(t) /\ thread'[t] = Frame(call, label, l)
          /\ metrics' = metrics /\ got' = got /\ missed' = missed
      BY <2>1, CallMoves DEF Call, series, history
    <3>2. Passed(t)'
      BY <3>1 DEF Frame, Passed, At, Walking
    <3> QED
      BY <1>c, <3>1, <3>2
  <2> QED
    BY <1>1, <2>1 DEF Operation, Add, Get, Serialize, Reset
(* No lookup is going on when a metric is added, for it holds the mutex.   *)
<1>2. ASSUME NEW t \in Threads, AppendMetric(t) PROVE Searched'
  <2>1. Others(t) /\ thread'[t] = Idle
    BY <1>2, AppendMoves DEF Typed
  <2>2. ASSUME NEW u \in Threads PROVE Passed(u)'
    <3>1. CASE u = t
      BY <2>1, <3>1, StopIdle DEF Passed, In, At, Walking
    <3>2. CASE u # t
      <4>1. ~Inside(u)
        BY <1>2, MetricFamilyAssumption DEF AppendMetric, MutexOwned
      <4>2. thread[u].pc = "throw" => In(u, "get")
        BY FrameByLabel DEF Fits, In
      <4> QED
        BY <2>1, <3>2, <4>1, <4>2 DEF Inside, Passed, Others, In, At, Walking
    <3> QED
      BY <3>1, <3>2
  <2>3. /\ got' = got /\ missed' = missed
        /\ Metrics' = Metrics \cup {Len(metrics')} /\ Len(metrics') = Len(metrics) + 1
        /\ \A m \in Metrics : metrics'[m] = metrics[m]
        /\ Len(metrics) \in Nat
    BY <1>2, AppendGrows DEF AppendMetric
  <2>4. ASSUME NEW l \in Labels, NEW m \in got[l]
        PROVE  metrics'[m] = l /\ \A k \in Metrics' : k < m => metrics'[k] # l
    <3>1. m \in Metrics /\ First(l, m)
      BY <1>b DEF Typed
    <3>2. \A k \in Metrics' : k < m => k \in Metrics
      BY <2>3, <3>1 DEF Metrics
    <3> QED
      BY <2>3, <3>1, <3>2
  <2> QED
    BY <1>b, <2>2, <2>3, <2>4 DEF Searched
<1>3. ASSUME NEW t \in Threads, Look(t) \/ Write(t) PROVE Searched'
  <2>1. /\ Stays(t) /\ thread[t].pc \in Walking /\ thread'[t].next = thread[t].next
        /\ thread'[t].pc \in Walking /\ thread'[t].pc # "throw"
        /\ metrics' = metrics /\ got' = got /\ missed' = missed
    BY <1>3, LookMoves, WriteMoves DEF Look, Write, series, history, Walking
  <2>2. Passed(t)'
    BY <1>b, <2>1 DEF Passed, Stays, Kept, In, At, Reached, Metrics
  <2> QED
    BY <1>c, <2>1, <2>2 DEF Stays
<1>4. ASSUME NEW t \in Threads, Search(t) PROVE Searched'
  <2>1. /\ Stays(t) /\ thread'[t].next = 1
        /\ thread'[t].pc = IF metrics = << >> THEN "throw" ELSE "look"
        /\ metrics' = metrics /\ got' = got /\ missed' = missed
    BY <1>4, SearchMoves DEF Search, series, history
  <2>2. Passed(t)'
    <3>1. metrics = << >> => Metrics = {}
      BY DEF Metrics
    <3> QED
      BY <2>1, <3>1 DEF Passed, Reached, At, Metrics
  <2> QED
    BY <1>c, <2>1, <2>2 DEF Stays
<1>5. ASSUME NEW t \in Threads, Match(t) PROVE Searched'
  <2>1. /\ thread[t].pc = "read" /\ In(t, "get") /\ writers[Reached(t)] = {}
        /\ metrics' = metrics /\ missed' = missed
    BY <1>5, <1>a, NobodyWrites, MatchMoves DEF At, In, Match, series
  <2>2. \A m \in Metrics : m < Reached(t) => metrics[m] # thread[t].arg
    BY <1>b, <2>1 DEF Passed, Walking
  <2>3. CASE Ends(t) /\ Found(t) /\ metrics[thread[t].next] = thread[t].arg
    <3>1. First(thread[t].arg, thread[t].next)
      BY <2>2, <2>3 DEF Reached
    <3>2. ASSUME NEW l \in Labels, NEW m \in got'[l] PROVE First(l, m)
      <4>1. m \in got[l] \/ (l = thread[t].arg /\ m = thread[t].next)
        BY <2>3, <3>2 DEF Found, Reached, Typed
      <4> QED
        BY <1>b, <3>1, <4>1
    <3>3. \A u \in Threads : Passed(u)'
      BY <1>b, <2>1, <2>3, StopIdle DEF Ends, Others, Passed, In, At, Walking, Reached, Metrics
    <3> QED
      BY <1>b, <2>1, <3>2, <3>3 DEF Searched, Metrics
  <2>4. CASE /\ Stays(t)
             /\ thread'[t].next = thread[t].next + 1
             /\ thread'[t].pc = IF thread[t].next = Len(metrics) THEN "throw" ELSE "look"
             /\ metrics[thread[t].next] # thread[t].arg
             /\ got' = got
    <3>1. thread[t].next \in Metrics
      BY <2>1, <2>4 DEF Stays, Fits, Walking
    <3>2. \A m \in Metrics : m < thread[t].next + 1 => metrics[m] # thread[t].arg
      BY <2>2, <2>4, <3>1 DEF Reached, Metrics
    <3>3. thread[t].next = Len(metrics) => \A m \in Metrics : m < thread[t].next + 1
      BY <3>1 DEF Metrics
    <3>4. Passed(t)'
      BY <2>1, <2>4, <3>2, <3>3 DEF Passed, Stays, Kept, In, At, Reached, Metrics
    <3> QED
      BY <1>c, <2>1, <2>4, <3>4 DEF Stays
  <2> QED
    BY <1>5, <2>1, <2>3, <2>4, MatchMoves DEF Reached
<1>6. ASSUME NEW t \in Threads, Throw(t) PROVE Searched'
  <2>1. /\ Ends(t) /\ thread[t].pc = "throw" /\ thread[t].op = "get"
        /\ metrics' = metrics /\ got' = got
    BY <1>6, ThrowMoves DEF Throw, series
  <2>2. \A m \in thread[t].known : metrics[m] # thread[t].arg
    <3>1. \A m \in Metrics : metrics[m] # thread[t].arg
      BY <1>b, <2>1 DEF Passed, At
    <3> QED
      BY <2>1, <3>1 DEF Ends, Frames
  <2>3. missed' = missed
    BY <1>6, <2>2 DEF Throw
  <2>4. Passed(t)'
    BY <2>1, StopIdle DEF Ends, Passed, In, At
  <2> QED
    BY <1>c, <2>1, <2>3, <2>4 DEF Ends
<1>7. ASSUME NEW t \in Threads, Begin(t) \/ PrintMetric(t) PROVE Searched'
  <2>1. /\ Others(t) /\ thread'[t].pc = "next"
        /\ metrics' = metrics /\ got' = got /\ missed' = missed
    BY <1>7, BeginMoves, PrintMoves DEF Begin, PrintMetric, series, history
  <2>2. Passed(t)'
    BY <2>1 DEF Passed, At, Walking
  <2> QED
    BY <1>c, <2>1, <2>2
<1>8. ASSUME NEW t \in Threads, NextMetric(t) PROVE Searched'
  <2>1. metrics' = metrics /\ got' = got /\ missed' = missed
    BY <1>8 DEF NextMetric, series, history
  <2>2. CASE Stays(t) /\ thread'[t].pc = "look"
    <3>1. Passed(t)'
      BY <1>8, <2>2, NextMoves DEF Passed, Stays, Kept, In, At
    <3> QED
      BY <1>c, <2>1, <2>2, <3>1 DEF Stays
  <2>3. CASE thread' = [u \in Threads |-> Stopped]
    <3>1. \A u \in Threads : Passed(u)'
      BY <2>3, StopIdle DEF Passed, In, At
    <3> QED
      BY <1>b, <2>1, <3>1 DEF Searched, Metrics
  <2> QED
    BY <1>8, <2>2, <2>3, NextMoves
<1>9. ASSUME NEW t \in Threads, SerializeDone(t) \/ ResetDone(t) PROVE Searched'
  <2>1. Ends(t) /\ metrics' = metrics /\ got' = got /\ missed' = missed
    BY <1>9, SerializeDoneMoves, ResetDoneMoves
    DEF SerializeDone, ResetDone, series, history
  <2>2. Passed(t)'
    BY <2>1, StopIdle DEF Ends, Passed, In, At
  <2> QED
    BY <1>c, <2>1, <2>2 DEF Ends
<1>10. ASSUME NEW t \in Threads, ResetLock(t) \/ ResetMetric(t) PROVE Searched'
  <2>1. /\ Stays(t) /\ thread'[t].pc = "reset"
        /\ metrics' = metrics /\ got' = got /\ missed' = missed
    BY <1>10, ResetLockMoves, ResetMetricMoves DEF ResetLock, ResetMetric, series, history
  <2>2. Passed(t)'
    BY <2>1 DEF Passed, At, Walking
  <2> QED
    BY <1>c, <2>1, <2>2 DEF Stays
<1>11. ASSUME NEW m \in returned, Update(m) PROVE Searched'
  <2>1. metrics' = metrics /\ got' = got /\ missed' = missed
    BY <1>11 DEF Update, history
  <2>2. \A t \in Threads : Passed(t)'
    BY <1>b, <1>11, <2>1, UpdateMoves DEF Passed, In, At, Reached, Metrics
  <2> QED
    BY <1>b, <2>1, <2>2 DEF Searched, Metrics
<1>12. ASSUME UNCHANGED vars PROVE Searched'
  BY <1>12, <1>b DEF vars, Searched, Passed, In, At, Reached, Metrics
<1>13. Searched'
  <2>1. ASSUME NEW t \in Threads, Step(t) PROVE Searched'
    BY <1>2, <1>3, <1>4, <1>5, <1>6, <1>7, <1>8, <1>9, <1>10, <2>1 DEF Step
  <2> QED
    BY <1>1, <1>11, <1>12, <2>1 DEF Next, Finished
<1> QED
  BY <1>13 DEF Searched

LEMMA AlwaysSearched == Spec => []Searched
<1>1. Init => Searched
  BY StopIdle DEF Init, Searched, Passed, In, At, Walking
<1> QED
  BY <1>1, SearchedStep, AlwaysTyped, MutexIsOwned, AlwaysWritersAtWork,
     AlwaysSeparate, PTL DEF Spec

(* Where metrics are added and looked up beside no scrape, get_metric      *)
(* gives every caller the same metric for the same labels                  *)
(* (metric_family.hpp:156), even while more are added with those labels.   *)
THEOREM GetsAreStable == Spec => []GetStable
BY AlwaysTyped, AlwaysSearched, SearchedIsStable, PTL

(* And a metric that add_metric has returned is found by its labels.       *)
THEOREM AddedAreFound == Spec => []AddedIsFound
BY AlwaysTyped, AlwaysSearched, SearchedIsStable, PTL

-----------------------------------------------------------------------------
(* Scrapes of disciplined callers.                                         *)

(* A scrape has printed the metrics it has passed, and the vector has not  *)
(* left the buffer it walks.                                               *)
Printed(t) ==
  /\ Len(thread[t].output) = Reached(t) - 1
  /\ \A i \in 1 .. Len(thread[t].output) :
       thread[t].output[i] = [metric |-> i, text |-> "whole"]
  /\ \A m \in thread[t].known : m <= thread[t].last
  /\ ~Dangling(t)

Printing(t) ==
  In(t, "serialize") =>
    IF At(t, "begin") THEN thread[t].output = << >> ELSE Printed(t)

PrintedSoFar == setupFirst => \A t \in Threads : Printing(t)

LEMMA PrintedIsScrapeWhole ==
  Typed /\ PrintedSoFar => ScrapeWhole /\ (setupFirst => NoUseAfterFree)
<1> SUFFICES ASSUME Typed, PrintedSoFar, setupFirst, NEW t \in Threads, At(t, "next")
             PROVE  /\ ~Dangling(t)
                    /\ Reached(t) > thread[t].last =>
                         /\ \A m \in thread[t].known : m <= Len(thread[t].output)
                         /\ \A i \in 1 .. Len(thread[t].output) :
                              thread[t].output[i] = [metric |-> i, text |-> "whole"]
  BY DEF ScrapeWhole, NoUseAfterFree, ScrapeOver
<1>1. thread[t] \in Frames /\ Fits(thread[t])
  BY FrameByLabel DEF At
<1>2. Printed(t)
  BY <1>1 DEF Fits, PrintedSoFar, Printing, In, At
<1>3. /\ thread[t].next \in Nat /\ thread[t].last \in Nat
      /\ thread[t].next <= thread[t].last + 1
      /\ \A m \in thread[t].known : m \in Nat
  BY <1>1 DEF Frames, Fits, At, Metrics
<1>4. Reached(t) > thread[t].last => Len(thread[t].output) = thread[t].last
  BY <1>2, <1>3 DEF Printed, Reached
<1> QED
  BY <1>2, <1>4 DEF Printed

LEMMA PrintedStep ==
  Typed /\ MutexOwned /\ WritersAtWork /\ Separate /\ PrintedSoFar /\ [Next]_vars
    => PrintedSoFar'
<1> SUFFICES ASSUME Typed, MutexOwned, WritersAtWork, Separate, PrintedSoFar, [Next]_vars
             PROVE  PrintedSoFar'
  OBVIOUS
(* A step that leaves the buffer, of a thread that is as it should be.     *)
<1>a. ASSUME NEW t \in Threads, Others(t), buffer' = buffer, setupFirst' = setupFirst,
             setupFirst => Printing(t)'
      PROVE  PrintedSoFar'
  BY <1>a DEF PrintedSoFar, Printing, Printed, Others, In, At, Reached, Dangling
<1>b. ASSUME NEW t \in Threads, Others(t), buffer' = buffer, setupFirst' = setupFirst,
             thread'[t].op # "serialize"
      PROVE  PrintedSoFar'
  BY <1>a, <1>b DEF Printing, In
<1>1. ASSUME NEW t \in Threads, Operation(t) PROVE PrintedSoFar'
  <2>1. ASSUME NEW call \in {"add", "get", "serialize", "reset"},
               NEW label \in {"append", "search", "begin", "reset_lock"},
               NEW l \in Labels \cup {NoLabels}, Call(t, call, label, l),
               call = "serialize" => label = "begin"
        PROVE  PrintedSoFar'
    <3>1. /\ Others(t) /\ thread'[t] = Frame(call, label, l)
          /\ buffer' = buffer /\ setupFirst' = setupFirst
      BY <2>1, CallMoves DEF Call, series
    <3>2. Printing(t)'
      BY <2>1, <3>1 DEF Frame, Printing, In, At
    <3> QED
      BY <1>a, <3>1, <3>2
  <2> QED
    BY <1>1, <2>1 DEF Operation, Add, Get, Serialize, Reset
(* With the discipline nothing is added beside a scrape.                   *)
<1>2. ASSUME NEW t \in Threads, AppendMetric(t) PROVE PrintedSoFar'
  <2>1. /\ Others(t) /\ thread'[t] = Idle /\ In(t, "add")
        /\ setupFirst' = setupFirst
    BY <1>2, AppendMoves DEF Typed, In, AppendMetric
  <2>2. ASSUME setupFirst, NEW u \in Threads PROVE thread'[u].op # "serialize"
    <3>1. CASE u = t
      BY <2>1, <3>1, StopIdle
    <3>2. CASE u # t
      BY <2>1, <2>2, <3>2 DEF Separate, Excluded, Others, In
    <3> QED
      BY <3>1, <3>2
  <2> QED
    BY <2>1, <2>2 DEF PrintedSoFar, Printing, In
<1>3. ASSUME NEW t \in Threads,
             Look(t) \/ Write(t) \/ (NextMetric(t) /\ ~Dangling(t))
      PROVE  PrintedSoFar'
  <2>1. buffer' = buffer /\ setupFirst' = setupFirst
    BY <1>3 DEF Look, Write, NextMetric, series
  <2>2. /\ Stays(t) /\ thread'[t].next = thread[t].next
        /\ thread[t].pc # "begin" /\ thread'[t].pc # "begin"
    BY <1>3, LookMoves, WriteMoves, NextMoves
  <2>3. setupFirst => Printing(t)'
    BY <2>1, <2>2
    DEF PrintedSoFar, Printing, Printed, Stays, Kept, In, At, Reached, Dangling
  <2> QED
    BY <1>a, <2>1, <2>2, <2>3 DEF Stays
<1>4. ASSUME NEW t \in Threads, NextMetric(t), Dangling(t) PROVE PrintedSoFar'
  <2>1. ~setupFirst
    BY <1>4, NextMoves DEF PrintedSoFar, Printing, Printed, In, At
  <2>2. setupFirst' = setupFirst
    BY <1>4 DEF NextMetric, series
  <2> QED
    BY <2>1, <2>2 DEF PrintedSoFar
<1>5. ASSUME NEW t \in Threads,
             \/ Search(t) \/ Match(t) \/ Throw(t) \/ SerializeDone(t)
             \/ ResetLock(t) \/ ResetMetric(t) \/ ResetDone(t)
      PROVE  PrintedSoFar'
  <2>1. buffer' = buffer /\ setupFirst' = setupFirst
    BY <1>5 DEF Search, Match, Throw, SerializeDone, ResetLock, ResetMetric, ResetDone,
                series
  <2>2. CASE Search(t) \/ ResetLock(t) \/ ResetMetric(t)
    <3>1. Stays(t) /\ thread[t].op # "serialize"
      BY <2>2, SearchMoves, ResetLockMoves, ResetMetricMoves DEF Stays, Fits
    <3> QED
      BY <1>b, <2>1, <3>1 DEF Stays, Kept
  <2>3. CASE Throw(t) \/ SerializeDone(t) \/ ResetDone(t)
    <3>1. Ends(t)
      BY <2>3, ThrowMoves, SerializeDoneMoves, ResetDoneMoves
    <3> QED
      BY <1>b, <2>1, <3>1, StopIdle DEF Ends
  <2>4. CASE Match(t)
    <3>1. thread[t].op = "get" /\ (Ends(t) \/ Stays(t))
      BY <2>4, MatchMoves
    <3> QED
      BY <1>b, <2>1, <3>1, StopIdle DEF Ends, Stays, Kept
  <2> QED
    BY <1>5, <2>2, <2>3, <2>4
<1>6. ASSUME NEW t \in Threads, Begin(t) PROVE PrintedSoFar'
  <2>1. buffer' = buffer /\ setupFirst' = setupFirst
    BY <1>6 DEF Begin, series
  <2>2. /\ thread[t] \in Frames /\ Others(t)
        /\ thread[t].pc = "begin" /\ thread[t].op = "serialize"
        /\ thread'[t].pc = "next" /\ thread'[t].next = 1
        /\ thread'[t].buffer = buffer.id /\ thread'[t].last = Len(metrics)
        /\ thread'[t].output = thread[t].output
        /\ thread'[t].known = thread[t].known
    BY <1>6, BeginMoves
  <2>3. ASSUME setupFirst PROVE Printed(t)'
    <3>1. thread[t].output = << >>
      BY <2>2, <2>3 DEF PrintedSoFar, Printing, In, At
    <3>2. \A m \in thread[t].known : m <= Len(metrics)
      BY <2>2 DEF Frames, Metrics
    <3> QED
      BY <2>1, <2>2, <3>1, <3>2 DEF Printed, Reached, Dangling
  <2>4. setupFirst => Printing(t)'
    BY <2>2, <2>3 DEF Printing, At
  <2> QED
    BY <1>a, <2>1, <2>2, <2>4
<1>7. ASSUME NEW t \in Threads, PrintMetric(t) PROVE PrintedSoFar'
  <2>1. buffer' = buffer /\ setupFirst' = setupFirst
    BY <1>7 DEF PrintMetric, series
  <2>2. /\ thread[t] \in Frames /\ Others(t)
        /\ thread[t].pc = "read" /\ thread[t].op = "serialize"
        /\ thread'[t].pc = "next" /\ thread'[t].next = thread[t].next + 1
        /\ thread'[t].buffer = thread[t].buffer /\ thread'[t].last = thread[t].last
        /\ thread'[t].known = thread[t].known
    BY <1>7, PrintMoves
  <2>3. ASSUME setupFirst PROVE Printed(t)'
    <3> DEFINE line == [metric |-> thread[t].next, text |-> "whole"]
               old == thread[t].output
               new == thread'[t].output
    <3>1. Printed(t)
      BY <2>2, <2>3 DEF PrintedSoFar, Printing, In, At
    <3>2. new = Append(old, line)
      <4>1. Readings(thread[t].next) = {"whole"}
        BY <2>2, <2>3, NobodyWrites DEF Readings, Reached, At
      <4> QED
        BY <1>7, <4>1, PrintMoves
    <3>3. old \in Seq(Lines) /\ thread[t].next \in Nat
      BY <2>2 DEF Frames
    <3>4. line \in Lines
      BY <3>3 DEF Lines
    <3>5. /\ Len(new) = Len(old) + 1 /\ Len(old) \in Nat
          /\ \A i \in 1 .. Len(old) : new[i] = old[i]
          /\ new[Len(old) + 1] = line
      BY <3>2, <3>3, <3>4, AppendProperties
    <3>6. Len(old) = thread[t].next - 1
      BY <3>1 DEF Printed, Reached
    <3>7. \A i \in 1 .. Len(new) : i \in 1 .. Len(old) \/ i = Len(old) + 1
      BY <3>5
    <3>8. ASSUME NEW i \in 1 .. Len(new) PROVE new[i] = [metric |-> i, text |-> "whole"]
      <4>1. CASE i \in 1 .. Len(old)
        BY <3>1, <3>5, <4>1 DEF Printed
      <4>2. CASE i = Len(old) + 1
        <5>1. i = thread[t].next
          BY <3>3, <3>6, <4>2
        <5> QED
          BY <3>5, <4>2, <5>1
      <4> QED
        BY <3>7, <4>1, <4>2
    <3>9. Len(new) = thread'[t].next - 1
      BY <2>2, <3>3, <3>5, <3>6
    <3>10. ~Dangling(t)' /\ \A m \in thread'[t].known : m <= thread'[t].last
      BY <2>1, <2>2, <3>1 DEF Printed, Dangling
    <3> QED
      BY <3>8, <3>9, <3>10 DEF Printed, Reached
  <2>4. setupFirst => Printing(t)'
    BY <2>2, <2>3 DEF Printing, At
  <2> QED
    BY <1>a, <2>1, <2>2, <2>4
<1>8. ASSUME NEW m \in returned, Update(m) PROVE PrintedSoFar'
  <2>1. buffer' = buffer /\ setupFirst' = setupFirst
    BY <1>8 DEF Update
  <2>2. \A t \in Threads : /\ In(t, "reset") => thread'[t].op # "serialize"
                           /\ ~In(t, "reset") => thread'[t] = thread[t]
    BY <1>8, UpdateMoves DEF In
  <2> QED
    BY <2>1, <2>2 DEF PrintedSoFar, Printing, Printed, In, At, Reached, Dangling
<1>9. ASSUME UNCHANGED vars PROVE PrintedSoFar'
  BY <1>9 DEF vars, PrintedSoFar, Printing, Printed, In, At, Reached, Dangling
<1>10. ASSUME NEW t \in Threads, Step(t) PROVE PrintedSoFar'
  <2>1. CASE NextMetric(t)
    BY <1>3, <1>4, <2>1
  <2>2. CASE Look(t) \/ Write(t)
    BY <1>3, <2>2
  <2>3. CASE AppendMetric(t) \/ Begin(t) \/ PrintMetric(t)
    BY <1>2, <1>6, <1>7, <2>3
  <2>4. CASE \/ Search(t) \/ Match(t) \/ Throw(t) \/ SerializeDone(t)
             \/ ResetLock(t) \/ ResetMetric(t) \/ ResetDone(t)
    BY <1>5, <2>4
  <2> QED
    BY <1>10, <2>1, <2>2, <2>3, <2>4 DEF Step
<1> QED
  BY <1>1, <1>8, <1>9, <1>10 DEF Next, Finished

LEMMA AlwaysPrinted == Spec => []PrintedSoFar
<1>1. Init => PrintedSoFar
  BY StopIdle DEF Init, PrintedSoFar, Printing, In
<1> QED
  BY <1>1, PrintedStep, AlwaysTyped, MutexIsOwned, AlwaysWritersAtWork,
     AlwaysSeparate, PTL DEF Spec

(* Where metrics are added and looked up beside no scrape and one scrape   *)
(* runs at a time, a scrape prints every metric added before it was        *)
(* called, once and in the order of their addition, with whole labels.     *)
THEOREM ScrapesWhole == Spec => []ScrapeWhole
BY AlwaysTyped, AlwaysPrinted, PrintedIsScrapeWhole, PTL

(* And no scrape reads a buffer that add_metric has freed: the discipline  *)
(* of the shipped example is enough for what metric_family.hpp:40 promises *)
(* without it.                                                             *)
THEOREM DisciplineIsSafe == Spec => [](setupFirst => NoUseAfterFree)
BY AlwaysTyped, AlwaysPrinted, PrintedIsScrapeWhole, PTL

=============================================================================
