--------------------------- MODULE SubprocessProofs ---------------------------
(* For any commands, outputs and pipe size: call() and rcall() hand over all  *)
(* the output of every command they return from, and never stop short of one  *)
(* unless call() runs a command that prints more than a pipe holds.           *)
EXTENDS Subprocess, TLAPS

(* The chunks of the command that runs are somewhere between it and the       *)
(* reader, and a command that has exited has printed them all.                *)
Conserved ==
    running # None =>
        Total(unwritten) + Total(pipe) + Total(read) = Total(Output[running])
AllPrinted == running # None /\ status # "running" => unwritten = Empty
Invariant == TypeOK /\ AllOutputRead /\ Conserved /\ AllPrinted

LEMMA InitInvariant == Init => Invariant
  BY NoneAssumption, PipeSizeAssumption
  DEF Init, Invariant, TypeOK, AllOutputRead, Conserved, AllPrinted, Empty, Stream

LEMMA PopenInvariant ==
    ASSUME Invariant, NEW c \in Command, Popen(c) PROVE Invariant'
  <1>1. Output[c] \in [Stream -> Nat] /\ c # None
    BY NoneAssumption, OutputAssumption
  <1>2. TypeOK'
    BY <1>1, PipeSizeAssumption DEF Invariant, TypeOK, Popen, Idle, Empty, Stream
  <1>3. AllOutputRead'
    BY DEF Invariant, AllOutputRead, Popen
  <1>4. Conserved'
    BY <1>1 DEF Popen, Conserved, Total, Empty, Stream
  <1>5. AllPrinted'
    BY DEF Popen, AllPrinted
  <1> QED BY <1>2, <1>3, <1>4, <1>5 DEF Invariant

LEMMA WriteInvariant ==
    ASSUME Invariant, NEW s \in Stream, Write(s) PROVE Invariant'
  <1> DEFINE p == PipeOf(running, s)
  <1>1. /\ p \in Stream
        /\ unwritten \in [Stream -> Nat] /\ pipe \in [Stream -> Nat]
        /\ read \in [Stream -> Nat]
        /\ unwritten[s] > 0 /\ pipe[p] < PipeSize
        /\ unwritten' = [unwritten EXCEPT ![s] = @ - 1]
        /\ pipe' = [pipe EXCEPT ![p] = @ + 1]
        /\ UNCHANGED <<running, parent, status, read, returned>>
    BY DEF Invariant, TypeOK, PipeOf, Write, Stream
  <1> HIDE DEF p
  <1>2. TypeOK'
    BY <1>1, PipeSizeAssumption DEF Invariant, TypeOK
  <1>3. AllOutputRead'
    BY <1>1 DEF Invariant, AllOutputRead
  <1>4. Total(unwritten') = Total(unwritten) - 1 /\ Total(pipe') = Total(pipe) + 1
    BY <1>1 DEF Total, Stream
  <1>5. Total(unwritten) \in Int /\ Total(pipe) \in Int /\ Total(read) \in Int
    BY <1>1 DEF Total, Stream
  <1>6. Conserved'
    BY <1>1, <1>4, <1>5 DEF Invariant, Conserved, Total
  <1>7. AllPrinted'
    BY <1>1 DEF Write, AllPrinted
  <1> QED BY <1>2, <1>3, <1>6, <1>7 DEF Invariant

LEMMA ReadInvariant ==
    ASSUME Invariant, NEW s \in Stream, Read(s) PROVE Invariant'
  <1>1. /\ pipe \in [Stream -> Nat] /\ read \in [Stream -> Nat]
        /\ unwritten \in [Stream -> Nat]
        /\ read' = [read EXCEPT ![s] = @ + pipe[s]]
        /\ pipe' = [pipe EXCEPT ![s] = 0]
        /\ UNCHANGED <<running, parent, status, unwritten, returned>>
    BY DEF Invariant, TypeOK, Read
  <1>2. TypeOK'
    BY <1>1, PipeSizeAssumption DEF Invariant, TypeOK
  <1>3. AllOutputRead'
    BY <1>1 DEF Invariant, AllOutputRead
  <1>4. Total(pipe') + Total(read') = Total(pipe) + Total(read)
    BY <1>1 DEF Total, Stream
  <1>5. /\ Total(unwritten) \in Int /\ Total(pipe) \in Int /\ Total(read) \in Int
        /\ Total(pipe') \in Int /\ Total(read') \in Int
    BY <1>1 DEF Total, Stream
  <1>6. Conserved'
    BY <1>1, <1>4, <1>5 DEF Invariant, Conserved, Total
  <1>7. AllPrinted'
    BY <1>1 DEF Invariant, AllPrinted
  <1> QED BY <1>2, <1>3, <1>6, <1>7 DEF Invariant

LEMMA ReturnInvariant ==
    ASSUME Invariant, Return PROVE Invariant'
  <1>1. /\ running \in Command
        /\ unwritten = Empty /\ pipe = Empty
        /\ read \in [Stream -> Nat]
    BY DEF Invariant, TypeOK, AllPrinted, Return, EndOfFile
  <1>2. Total(read) = Total(Output[running]) /\ Total(read) \in Nat
    BY <1>1, NoneAssumption DEF Invariant, Conserved, Total, Empty, Stream
  <1>3. [status |-> status, chunks |-> Total(read)] \in Results
    BY <1>2 DEF Invariant, TypeOK, Return, EndOfFile, Results
  <1>4. TypeOK'
    BY <1>1, <1>3 DEF Invariant, TypeOK, Return, With
  <1>5. AllOutputRead'
    BY <1>2 DEF Invariant, AllOutputRead, Return, With
  <1>6. Conserved' /\ AllPrinted'
    BY DEF Return, Conserved, AllPrinted
  <1> QED BY <1>4, <1>5, <1>6 DEF Invariant

LEMMA PopenRaisesInvariant ==
    ASSUME Invariant, NEW c \in Command, PopenRaises(c) PROVE Invariant'
  <1>1. Raised \in Results
    BY DEF Raised, Results
  <1>2. TypeOK'
    BY <1>1 DEF Invariant, TypeOK, PopenRaises, With
  <1>3. AllOutputRead'
    BY DEF Invariant, AllOutputRead, PopenRaises, With, Raised
  <1>4. Conserved' /\ AllPrinted'
    BY DEF Invariant, PopenRaises, Conserved, AllPrinted
  <1> QED BY <1>2, <1>3, <1>4 DEF Invariant

LEMMA NextInvariant == Invariant /\ [Next]_vars => Invariant'
  <1> SUFFICES ASSUME Invariant, [Next]_vars PROVE Invariant'
    OBVIOUS
  <1>1. ASSUME NEW c \in Command, Popen(c) PROVE Invariant'
    BY <1>1, PopenInvariant
  <1>2. ASSUME NEW c \in Command, PopenRaises(c) PROVE Invariant'
    BY <1>2, PopenRaisesInvariant
  <1>3. ASSUME NEW s \in Stream, Write(s) PROVE Invariant'
    BY <1>3, WriteInvariant
  <1>4. ASSUME NEW s \in Stream, Read(s) PROVE Invariant'
    BY <1>4, ReadInvariant
  <1>5. ASSUME NEW code \in {"zero", "nonzero"}, Exit(code) PROVE Invariant'
    BY <1>5 DEF Invariant, TypeOK, AllOutputRead, Conserved, AllPrinted, Exit
  <1>6. CASE Waited
    BY <1>6 DEF Invariant, TypeOK, AllOutputRead, Conserved, AllPrinted, Waited
  <1>7. CASE Return
    BY <1>7, ReturnInvariant
  <1>8. CASE UNCHANGED vars
    BY <1>8 DEF Invariant, TypeOK, AllOutputRead, Conserved, AllPrinted, vars
  <1> QED BY <1>1, <1>2, <1>3, <1>4, <1>5, <1>6, <1>7, <1>8 DEF Next

(* No output is lost between a command and the caller of call() or rcall(). *)
THEOREM AllOutputReadHolds == Spec => []AllOutputRead
  <1>1. Init => Invariant
    BY InitInvariant
  <1>2. Invariant /\ [Next]_vars => Invariant'
    BY NextInvariant
  <1>3. Invariant => AllOutputRead
    BY DEF Invariant
  <1> QED BY <1>1, <1>2, <1>3, PTL DEF Spec

(* The pipes never hold more than they can, and the program waits or reads    *)
(* exactly while a command runs.                                              *)
THEOREM TypeCorrect == Spec => []TypeOK
  <1>1. Init => Invariant
    BY InitInvariant
  <1>2. Invariant /\ [Next]_vars => Invariant'
    BY NextInvariant
  <1>3. Invariant => TypeOK
    BY DEF Invariant
  <1> QED BY <1>1, <1>2, <1>3, PTL DEF Spec

-------------------------------------------------------------------------------
(* What Returns asks for, short of the fairness of Progress.                  *)

(* The command and the program each wait for the other: call() for the exit   *)
(* of a command that cannot write on, because the pipe is full.               *)
Clogged ==
    /\ parent = "waiting" /\ status = "running"
    /\ pipe["stdout"] = PipeSize
    /\ unwritten # Empty

(* One of the two has a step: Write, Exit, Waited, Read or Return.            *)
CanGoOn ==
    \/ /\ status = "running"
       /\ \/ unwritten = Empty
          \/ \E s \in Stream : /\ unwritten[s] > 0
                               /\ pipe[PipeOf(running, s)] < PipeSize
    \/ status # "running" /\ (parent = "waiting" \/ pipe = Empty)
    \/ parent = "reading" /\ \E s \in Stream : pipe[s] > 0

(* Only call() waits, and it has read nothing so far.                         *)
WaitReadsNothing == parent = "waiting" => running \in Called /\ read = Empty

(* A command and its reader always have a step, unless call() runs a command  *)
(* that prints more than a pipe holds.                                        *)
OnlyLongOutputClogs ==
    running # None =>
        \/ CanGoOn
        \/ Clogged /\ running \in Called /\ Total(Output[running]) > PipeSize

LEMMA InitWait == Init => WaitReadsNothing
  BY DEF Init, WaitReadsNothing

LEMMA NextWait == Invariant /\ WaitReadsNothing /\ [Next]_vars => WaitReadsNothing'
  <1> SUFFICES ASSUME Invariant, WaitReadsNothing, [Next]_vars
               PROVE  WaitReadsNothing'
    OBVIOUS
  <1> USE DEF WaitReadsNothing
  <1>1. ASSUME NEW c \in Command, Popen(c) PROVE WaitReadsNothing'
    BY <1>1 DEF Popen
  <1>2. ASSUME NEW c \in Command, PopenRaises(c) PROVE WaitReadsNothing'
    BY <1>2 DEF PopenRaises
  <1>3. ASSUME NEW s \in Stream, Write(s) \/ Read(s) PROVE WaitReadsNothing'
    BY <1>3 DEF Write, Read
  <1>4. ASSUME NEW code \in {"zero", "nonzero"}, Exit(code) PROVE WaitReadsNothing'
    BY <1>4 DEF Exit
  <1>5. CASE Waited \/ Return \/ UNCHANGED vars
    BY <1>5 DEF Waited, Return, EndOfFile, vars
  <1> QED BY <1>1, <1>2, <1>3, <1>4, <1>5 DEF Next

LEMMA ChunksAreNat ==
    ASSUME Invariant
    PROVE  /\ \A s \in Stream : /\ unwritten[s] \in Nat /\ pipe[s] \in Nat
                                /\ read[s] \in Nat /\ pipe[s] <= PipeSize
           /\ unwritten = [s \in Stream |-> unwritten[s]]
           /\ pipe = [s \in Stream |-> pipe[s]]
           /\ {Total(unwritten), Total(pipe), Total(read)} \subseteq Nat
  BY DEF Invariant, TypeOK, Total, Stream

(* What is not empty has a chunk somewhere.                                   *)
LEMMA EmptyOrNot ==
    ASSUME Invariant
    PROVE  /\ unwritten # Empty => \E s \in Stream : unwritten[s] > 0
           /\ pipe # Empty => \E s \in Stream : pipe[s] > 0
  <1>1. unwritten # Empty => \E s \in Stream : unwritten[s] # 0
    BY ChunksAreNat DEF Empty
  <1>2. pipe # Empty => \E s \in Stream : pipe[s] # 0
    BY ChunksAreNat DEF Empty
  <1> QED BY <1>1, <1>2, ChunksAreNat

LEMMA GoesOnOrClogged ==
    ASSUME Invariant, WaitReadsNothing PROVE OnlyLongOutputClogs
  <1> SUFFICES ASSUME running # None, ~CanGoOn
               PROVE  /\ Clogged /\ running \in Called
                      /\ Total(Output[running]) > PipeSize
    BY DEF OnlyLongOutputClogs
  <1>1. running \in Command /\ parent \in {"waiting", "reading"}
    BY DEF Invariant, TypeOK
  <1>2. status = "running"
    BY <1>1, EmptyOrNot DEF CanGoOn
  <1>3. unwritten # Empty
    BY <1>2 DEF CanGoOn
  <1>4. PICK s \in Stream : unwritten[s] > 0
    BY <1>3, EmptyOrNot
  <1>5. PipeOf(running, s) \in Stream
    BY <1>4 DEF PipeOf, Stream
  <1>6. pipe[PipeOf(running, s)] = PipeSize
    BY <1>2, <1>4, <1>5, ChunksAreNat, PipeSizeAssumption DEF CanGoOn
  <1>7. parent = "waiting"
    <2>1. pipe[PipeOf(running, s)] > 0
      BY <1>6, PipeSizeAssumption
    <2> QED BY <1>1, <1>5, <2>1 DEF CanGoOn
  <1>8. running \in Called /\ read = Empty
    BY <1>7 DEF WaitReadsNothing
  <1>9. pipe["stdout"] = PipeSize
    BY <1>6, <1>8 DEF PipeOf
  <1>10. Total(unwritten) > 0 /\ Total(pipe) >= PipeSize /\ Total(read) = 0
    <2>1. unwritten["stdout"] \in Nat /\ unwritten["stderr"] \in Nat /\ pipe["stderr"] \in Nat
      BY ChunksAreNat DEF Stream
    <2>2. unwritten["stdout"] > 0 \/ unwritten["stderr"] > 0
      BY <1>4 DEF Stream
    <2> QED BY <1>8, <1>9, <2>1, <2>2, PipeSizeAssumption DEF Total, Empty, Stream
  <1>11. Total(Output[running]) = Total(unwritten) + Total(pipe) + Total(read)
    BY DEF Invariant, Conserved
  <1>12. Total(Output[running]) > PipeSize
    BY <1>10, <1>11, ChunksAreNat, PipeSizeAssumption
  <1> QED BY <1>2, <1>3, <1>7, <1>8, <1>9, <1>12 DEF Clogged

(* call() and rcall() never wait for each other's command for ever, but for a *)
(* call() of a command that prints more than a pipe holds.                    *)
THEOREM OnlyLongOutputClogsHolds == Spec => []OnlyLongOutputClogs
  <1>1. Init => Invariant /\ WaitReadsNothing
    BY InitInvariant, InitWait
  <1>2. Invariant /\ WaitReadsNothing /\ [Next]_vars => (Invariant /\ WaitReadsNothing)'
    BY NextInvariant, NextWait
  <1>3. Invariant /\ WaitReadsNothing => OnlyLongOutputClogs
    BY GoesOnOrClogged
  <1> QED BY <1>1, <1>2, <1>3, PTL DEF Spec

(* What a command that runs has still to do, and the program with it: each    *)
(* chunk is to be written and to be read.                                     *)
Work == 2 * Total(unwritten) + Total(pipe)
          + (IF status = "running" THEN 1 ELSE 0)
          + (IF parent = "waiting" THEN 1 ELSE 0)

(* Every step of a command or its reader leaves less to do, and the last one  *)
(* hands its results over: a call that can always go on comes back.           *)
WorkShrinks ==
    running # None =>
        \/ running' = None /\ running \in DOMAIN returned'
        \/ running' = running /\ Work' \in Nat /\ Work' < Work

LEMMA StepShrinksWork == ASSUME Invariant, Invariant', Next PROVE WorkShrinks
  <1> SUFFICES ASSUME running # None PROVE WorkShrinks
    BY DEF WorkShrinks
  <1>0. parent # "idle"
    BY DEF Invariant, TypeOK
  <1>1. Total(unwritten) \in Nat /\ Total(pipe) \in Nat
        /\ Total(unwritten') \in Nat /\ Total(pipe') \in Nat
    <2>1. Total(unwritten) \in Nat /\ Total(pipe) \in Nat
      BY ChunksAreNat
    <2>2. (Total(unwritten) \in Nat /\ Total(pipe) \in Nat)'
      BY DEF Invariant, TypeOK, Total, Stream
    <2> QED BY <2>1, <2>2 DEF Total
  <1>2. Work' \in Nat
    BY <1>1 DEF Work, Total
  <1>3. ASSUME NEW s \in Stream, Write(s) PROVE WorkShrinks
    <2>1. /\ unwritten' = [unwritten EXCEPT ![s] = @ - 1]
          /\ pipe' = [pipe EXCEPT ![PipeOf(running, s)] = @ + 1]
          /\ UNCHANGED <<running, parent, status>>
      BY <1>3 DEF Write
    <2>2. PipeOf(running, s) \in Stream
      BY DEF PipeOf, Stream
    <2>3. Total(unwritten') = Total(unwritten) - 1 /\ Total(pipe') = Total(pipe) + 1
      BY <2>1, <2>2 DEF Invariant, TypeOK, Total, Stream
    <2> QED BY <1>1, <1>2, <2>1, <2>3 DEF WorkShrinks, Work, Total
  <1>4. ASSUME NEW s \in Stream, Read(s) PROVE WorkShrinks
    <2>1. /\ pipe' = [pipe EXCEPT ![s] = 0] /\ pipe[s] > 0
          /\ UNCHANGED <<running, parent, status, unwritten>>
      BY <1>4 DEF Read
    <2>2. Total(pipe') < Total(pipe)
      BY <2>1 DEF Invariant, TypeOK, Total, Stream
    <2> QED BY <1>1, <1>2, <2>1, <2>2 DEF WorkShrinks, Work, Total
  <1>5. ASSUME NEW code \in {"zero", "nonzero"}, Exit(code) PROVE WorkShrinks
    BY <1>1, <1>2, <1>5 DEF Exit, WorkShrinks, Work, Total
  <1>6. CASE Waited
    BY <1>1, <1>2, <1>6 DEF Waited, WorkShrinks, Work, Total
  <1>7. CASE Return
    BY <1>7 DEF Return, With, WorkShrinks
  <1>8. ASSUME NEW c \in Command PROVE ~Popen(c) /\ ~PopenRaises(c)
    BY <1>0 DEF Popen, PopenRaises, Idle
  <1> QED BY <1>3, <1>4, <1>5, <1>6, <1>7, <1>8 DEF Next

(* A command and its reader come to an end, however the steps interleave.     *)
THEOREM WorkShrinksHolds == Spec => [][WorkShrinks]_vars
  <1>1. Init => Invariant
    BY InitInvariant
  <1>2. Invariant /\ [Next]_vars => Invariant'
    BY NextInvariant
  <1>3. Invariant /\ Invariant' /\ [Next]_vars => [WorkShrinks]_vars
    BY StepShrinksWork
  <1> QED BY <1>1, <1>2, <1>3, PTL DEF Spec
===============================================================================
