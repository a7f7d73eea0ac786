------------------------------ MODULE Subprocess ------------------------------
(* The two ways the program runs a command and collects what it prints       *)
(* (imgcreate/util.py).  call() has stderr sent into stdout's pipe, waits     *)
(* for the command to exit and only then reads; rcall() gives each stream a   *)
(* pipe of its own and reads both while the command runs (communicate()).     *)
(* A pipe of the kernel holds PipeSize chunks and its writer blocks when it   *)
(* is full.  One thread runs the commands, one after the other.               *)
EXTENDS Integers

CONSTANTS Command,   \* the commands the program runs
          Called,    \* those it runs with call(), the others with rcall()
          Output,    \* how many chunks a command prints to each stream
          PipeSize   \* how many chunks a pipe holds

None == "none"
Stream == {"stdout", "stderr"}

ASSUME NoneAssumption == None \notin Command
ASSUME CalledAssumption == Called \subseteq Command
ASSUME OutputAssumption == Output \in [Command -> [Stream -> Nat]]
ASSUME PipeSizeAssumption == PipeSize \in Nat \ {0}

VARIABLES running,    \* the command that runs, or None
          parent,     \* where the program is in call() or rcall()
          status,     \* the exit status of the command, "running" before
          unwritten,  \* the chunks it still has to print
          pipe,       \* the chunks in the two pipes
          read,       \* the chunks read from the two pipes
          returned    \* what came back of the commands that are done
vars == <<running, parent, status, unwritten, pipe, read, returned>>

Empty == [s \in Stream |-> 0]
Total(chunks) == chunks["stdout"] + chunks["stderr"]
(* stderr=subprocess.STDOUT: call() has no second pipe. *)
PipeOf(c, s) == IF c \in Called THEN "stdout" ELSE s

Results == [status : {"zero", "nonzero", "raised"}, chunks : Nat]
Raised == [status |-> "raised", chunks |-> 0]
With(c, result) == [d \in DOMAIN returned \cup {c} |->
                      IF d = c THEN result ELSE returned[d]]

Init == /\ running = None
        /\ parent = "idle"
        /\ status = "running"
        /\ unwritten = Empty
        /\ pipe = Empty
        /\ read = Empty
        /\ returned = [c \in {} |-> Raised]

Idle == parent = "idle"
(* Popen() gives the command its pipes.  call() turns to p.wait(), rcall()   *)
(* to communicate().                                                         *)
Popen(c) ==
    /\ Idle
    /\ c \notin DOMAIN returned
    /\ running' = c
    /\ parent' = IF c \in Called THEN "waiting" ELSE "reading"
    /\ status' = "running"
    /\ unwritten' = Output[c]
    /\ pipe' = Empty
    /\ read' = Empty
    /\ UNCHANGED returned

(* The command prints a chunk, unless the pipe is full. *)
Write(s) ==
    /\ running # None /\ status = "running"
    /\ unwritten[s] > 0
    /\ pipe[PipeOf(running, s)] < PipeSize
    /\ unwritten' = [unwritten EXCEPT ![s] = @ - 1]
    /\ pipe' = [pipe EXCEPT ![PipeOf(running, s)] = @ + 1]
    /\ UNCHANGED <<running, parent, status, read, returned>>

Exit(code) ==
    /\ running # None /\ status = "running"
    /\ unwritten = Empty
    /\ status' = code
    /\ UNCHANGED <<running, parent, unwritten, pipe, read, returned>>

(* rc = p.wait() *)
Waited ==
    /\ parent = "waiting"
    /\ status # "running"
    /\ parent' = "reading"
    /\ UNCHANGED <<running, status, unwritten, pipe, read, returned>>

(* Seeded fault: rcall() that waits with p.wait() and reads stdout only. *)
ReadStdout(s) ==
    /\ parent = "reading"
    /\ s = "stdout" /\ pipe[s] > 0
    /\ read' = [read EXCEPT ![s] = @ + pipe[s]]
    /\ pipe' = [pipe EXCEPT ![s] = 0]
    /\ UNCHANGED <<running, parent, status, unwritten, returned>>
(* fp.read(), communicate(): takes what a pipe holds. *)
Read(s) ==
    /\ parent = "reading"
    /\ pipe[s] > 0
    /\ read' = [read EXCEPT ![s] = @ + pipe[s]]
    /\ pipe' = [pipe EXCEPT ![s] = 0]
    /\ UNCHANGED <<running, parent, status, unwritten, returned>>

(* Seeded fault: a reader that takes an empty pipe for the end of file. *)
EmptyIsEndOfFile == parent = "reading" /\ pipe = Empty
(* Both pipes are at end of file, which needs their writer to be gone. *)
EndOfFile == /\ parent = "reading"
             /\ status # "running"
             /\ pipe = Empty

(* Seeded fault: call() and rcall() still read after they have returned. *)
ReturnKeepsWaiting ==
    /\ EndOfFile
    /\ returned' = With(running, [status |-> status, chunks |-> Total(read)])
    /\ running' = None
    /\ UNCHANGED <<parent, status, unwritten, pipe, read>>
(* The exit code and the lines go back to the caller: rcall()'s "finally:    *)
(* return" also where it has just raised CreatorError for the exit code.      *)
Return ==
    /\ EndOfFile
    /\ returned' = With(running, [status |-> status, chunks |-> Total(read)])
    /\ running' = None
    /\ parent' = "idle"
    /\ UNCHANGED <<status, unwritten, pipe, read>>

(* Popen() raises: the program is not installed.  The OSError leaves call();  *)
(* in rcall() "p.returncode" of None raises an AttributeError in its place.   *)
PopenRaises(c) ==
    /\ Idle
    /\ c \notin DOMAIN returned
    /\ returned' = With(c, Raised)
    /\ UNCHANGED <<running, parent, status, unwritten, pipe, read>>

Next == \/ \E c \in Command : Popen(c) \/ PopenRaises(c)
        \/ \E s \in Stream : Write(s) \/ Read(s)
        \/ \E code \in {"zero", "nonzero"} : Exit(code)
        \/ Waited
        \/ Return

Spec == Init /\ [][Next]_vars

(* A command that can go on does, and so does the program that reads it. *)
Progress == Next /\ running # None
FairSpec == Spec /\ WF_vars(Progress)

-------------------------------------------------------------------------------

TypeOK ==
    /\ running \in Command \cup {None}
    /\ parent \in {"idle", "waiting", "reading"}
    /\ (running = None) <=> (parent = "idle")
    /\ status \in {"running", "zero", "nonzero"}
    /\ {unwritten, pipe, read} \subseteq [Stream -> Nat]
    /\ \A s \in Stream : pipe[s] <= PipeSize
    /\ DOMAIN returned \subseteq Command
    /\ \A c \in DOMAIN returned : returned[c] \in Results

(* "All stdout and stderr output is sent to logging.debug()": what call() and *)
(* rcall() hand over is all the command printed to both streams, although it  *)
(* printed while they waited, read or had already found the pipes empty.      *)
AllOutputRead ==
    \A c \in DOMAIN returned :
        returned[c].status # "raised" => returned[c].chunks = Total(Output[c])

(* "The return value is the exit code of the command": call() and rcall()     *)
(* come back from every command they start.                                   *)
Returns == \A c \in Command : (running = c) ~> (c \in DOMAIN returned)
===============================================================================
