--------------------------------- MODULE SshStream ---------------------------------
(******************************************************************************)
(* What flows through one session of the SSH proxy (internal/sshproxy): input  *)
(* and sizes from a WebSocket reader to the shell, output from the goroutines  *)
(* that read the shell, one of a local shell, two of an SSH session, through   *)
(* the rate limit to the cloud, and Close by whoever calls it.  SshProxy has   *)
(* the table of sessions.                                                      *)
(*                                                                             *)
(* A byte is its number among those its reader has read, a second is a unit of *)
(* time.  The session's mutex is held while the shell's input is written.      *)
(******************************************************************************)
EXTENDS Integers, FiniteSets, Sequences

CONSTANTS
  Streams,       \* the shell's outputs: stdout, or stdout and stderr
  Stdout,        \* the one whose end closes the session
  MaxOutputRate,
  MaxRead,       \* bytes a read returns at most (4096 in the code)
  Buffer,        \* writes that fit into the shell's input before they block
  MaxNow,        \* bound on seconds
  MaxBytes,      \* bound on bytes of an output
  MaxWrites      \* bound on inputs

Writer == "writer"           \* the read pump of the WebSocket
Closer == "closer"           \* a goroutine that calls Session.Close

VARIABLES
  now,
  owner,         \* who has the session's mutex, or "none"
  closed, told,  \* Session.closed; the cloud has its ssh:close
  used, window,  \* outputBytes, outputWindow
  reader,        \* output -> its goroutine: step, time.Now(), [lo, hi] of its data
  read,          \* output -> bytes read
  delivered,     \* history: output -> the bytes sent, in order
  writer,        \* step of WriteData, idle else
  written,       \* inputs written by the read pump
  input,         \* inputs the shell has not taken
  taken,         \* history: inputs the shell has taken
  closer         \* step of Close

streamVars == <<now, owner, closed, told, used, window, reader, read, delivered,
                writer, written, input, taken, closer>>
inputVars == <<writer, written, input, taken>>
outputVars == <<used, window, reader, read, delivered>>
closeVars == <<closed, told, closer>>

Resting == [step |-> "idle", at |-> 0, lo |-> 0, hi |-> 0, remaining |-> 0]
Step(o, s) == reader' = [reader EXCEPT ![o].step = s]

Lock(a) == owner = "none" /\ owner' = a
UnlockForgotten(a) == owner = a /\ UNCHANGED owner   \* faulty: no defer
Unlock(a) == owner = a /\ owner' = "none"

Second ==
  /\ now < MaxNow /\ now' = now + 1
  /\ UNCHANGED <<owner, closeVars, outputVars, inputVars>>

------------------------------------------------------------------------------
(* Output: throttledOutput.                                                 *)

\* A read, and time.Now(), before the mutex is asked for.
Read(o) ==
  /\ reader[o].step = "idle"
  /\ \E n \in 1..MaxRead :
       /\ read[o] + n <= MaxBytes
       /\ read' = [read EXCEPT ![o] = @ + n]
       /\ reader' = [reader EXCEPT ![o] = [Resting EXCEPT
            !.step = "check", !.at = now, !.lo = read[o] + 1, !.hi = read[o] + n]]
  /\ UNCHANGED <<now, owner, used, window, delivered, closeVars, inputVars>>

\* The first critical section; a window is at least a second long.
NewWindow(o) == reader[o].at - window >= 1
Check(o) ==
  /\ reader[o].step = "check" /\ owner = "none"
  /\ used' = IF NewWindow(o) THEN 0 ELSE used
  /\ window' = IF NewWindow(o) THEN reader[o].at ELSE window
  /\ LET remaining == MaxOutputRate - used'
     IN reader' = [reader EXCEPT ![o] =
          IF remaining <= 0 THEN Resting
          ELSE [@ EXCEPT !.step = "count", !.remaining = remaining]]
  /\ UNCHANGED <<now, owner, read, delivered, closeVars, inputVars>>

\* The second: data[:remaining] is counted.
Least(a, b) == IF a < b THEN a ELSE b
SendAll(o) == reader[o].hi                     \* faulty: data is not cut
SendTo(o) == Least(reader[o].hi, reader[o].lo + reader[o].remaining - 1)
Count(o) ==
  /\ reader[o].step = "count" /\ owner = "none"
  /\ used' = used + SendTo(o) - reader[o].lo + 1
  /\ reader' = [reader EXCEPT ![o] = [@ EXCEPT !.step = "send", !.hi = SendTo(o)]]
  /\ UNCHANGED <<now, owner, window, read, delivered, closeVars, inputVars>>

\* onOutput, whether the session was closed or not.
Send(o) ==
  /\ reader[o].step = "send"
  /\ delivered' = [delivered EXCEPT ![o] =
       @ \o [k \in 1..reader[o].hi - reader[o].lo + 1 |-> reader[o].lo + k - 1]]
  /\ reader' = [reader EXCEPT ![o] = Resting]
  /\ UNCHANGED <<now, owner, used, window, read, closeVars, inputVars>>

\* The shell or the connection ends, or was closed.  Whoever calls Close after
\* another has, or waits with another, changes nothing: Closer stands for all.
ReadFails(o) ==
  /\ reader[o].step = "idle"
  /\ Step(o, "over")
  /\ closer' = IF o = Stdout /\ closer = "idle" THEN "close" ELSE closer
  /\ UNCHANGED <<now, owner, closed, told, used, window, read, delivered, inputVars>>

------------------------------------------------------------------------------
(* Input: WriteData, and Resize.                                            *)

WriteData ==
  /\ writer = "idle" /\ written < MaxWrites /\ Lock(Writer)
  /\ IF closed THEN writer' = "unlock" /\ UNCHANGED written
               ELSE writer' = "write" /\ written' = written + 1
  /\ UNCHANGED <<now, input, taken, outputVars, closeVars>>

\* The write waits, with the mutex, until the shell takes something.
Write ==
  /\ writer = "write" /\ Len(input) < Buffer
  /\ input' = Append(input, written)
  /\ writer' = "unlock"
  /\ UNCHANGED <<now, owner, written, taken, outputVars, closeVars>>

WriteReturns ==
  /\ writer = "unlock" /\ Unlock(Writer)
  /\ writer' = "idle"
  /\ UNCHANGED <<now, written, input, taken, outputVars, closeVars>>

\* The shell takes input when it likes; not while it waits for its output to be
\* read, which the goroutines do not do while they wait for the mutex.
ShellTakes ==
  /\ input # <<>> /\ ~closed
  /\ taken' = Append(taken, Head(input)) /\ input' = Tail(input)
  /\ UNCHANGED <<now, owner, writer, written, outputVars, closeVars>>

------------------------------------------------------------------------------
(* Close, which tells the cloud under the mutex.                            *)

CloseSession ==
  /\ closer = "idle" /\ closer' = "close"
  /\ UNCHANGED <<now, owner, closed, told, outputVars, inputVars>>

Close ==
  /\ closer = "close" /\ owner = "none"
  /\ IF closed THEN closer' = "idle" /\ UNCHANGED <<owner, closed>>
     ELSE closer' = "tell" /\ owner' = Closer /\ closed' = TRUE
  /\ UNCHANGED <<now, told, outputVars, inputVars>>

OnClose ==
  /\ closer = "tell" /\ Unlock(Closer)
  /\ told' = told + 1 /\ closer' = "idle"
  /\ UNCHANGED <<now, closed, outputVars, inputVars>>

------------------------------------------------------------------------------
StreamInit ==
  /\ now = 0 /\ owner = "none" /\ closed = FALSE /\ told = 0
  /\ used = 0 /\ window = 0
  /\ reader = [o \in Streams |-> Resting] /\ read = [o \in Streams |-> 0]
  /\ delivered = [o \in Streams |-> <<>>]
  /\ writer = "idle" /\ written = 0 /\ input = <<>> /\ taken = <<>>
  /\ closer = "idle"

StreamNext ==
  \/ Second \/ WriteData \/ Write \/ WriteReturns \/ ShellTakes
  \/ CloseSession \/ Close \/ OnClose
  \/ \E o \in Streams : Read(o) \/ Check(o) \/ Count(o) \/ Send(o) \/ ReadFails(o)

StreamSpec == StreamInit /\ [][StreamNext]_streamVars

\* Goroutines are scheduled, and a mutex that is free again and again is had by
\* whoever waits for it.  The shell need not take anything.
StreamFairness ==
  /\ WF_streamVars(Write) /\ WF_streamVars(WriteReturns) /\ WF_streamVars(OnClose)
  /\ SF_streamVars(Close)

------------------------------------------------------------------------------
(* Properties.                                                              *)

\* The readers check and count in two critical sections: together they may exceed
\* the limit, by what each was allowed before the others' bytes were counted.
RateKept == used <= MaxOutputRate * Cardinality(Streams)

Rising(s) == \A k \in 1..Len(s) - 1 : s[k] < s[k + 1]
InOrder == /\ \A o \in Streams : Rising(delivered[o])
           /\ taken \o input = [k \in 1..Len(taken \o input) |-> k]

\* Whoever closes the session can, unless the shell does not take its input while
\* the read pump waits to write, with the mutex.
ShellIsFull == writer = "write" /\ Len(input) = Buffer
CloseEnds == closer = "close" ~> closed \/ ShellIsFull

\* The limit is kept up to one window for each reader, output and input keep their
\* order however much is dropped, and the cloud is told once.
StreamLimits == RateKept /\ InOrder /\ told <= 1
===============================================================================
