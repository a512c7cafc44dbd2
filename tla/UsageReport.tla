------------------------------ MODULE UsageReport ------------------------------
(******************************************************************************)
(* Token usage (internal/usage) and the heartbeat that reports it             *)
(* (internal/heartbeat).  Every model call is recorded in the bucket of its   *)
(* hour, in memory and in a file; the heartbeat loop takes the buckets of     *)
(* past hours out of both and then sends them to the cloud, once.             *)
(*                                                                            *)
(* A call is known by a name; the sums of a bucket are the set of the calls   *)
(* they add up.                                                               *)
(******************************************************************************)
EXTENDS Naturals, FiniteSets

CONSTANTS
  Calls,         \* model calls
  MaxHour,       \* bound on the clock
  MaxMisses      \* bound on failed writes, failed reports and restarts

Hours == 0..MaxHour

VARIABLES
  hour,          \* the clock, in hours
  stamp,         \* each call: the hour Record read, before it took the lock
  made,          \* calls that called Record, and those that it has added
  buckets, usageFile,    \* hour -> calls, in memory and on disk
  beating,       \* the loop runs: RegisterRouter succeeded at the start
  report,        \* calls in the buckets being sent
  reports,       \* call -> how often the cloud was told of it
  misses,
  unwritten,     \* history: the file lacks the last change
  again,         \* history: calls the file brought back after their flush
  gone           \* history: calls whose report failed or was cut short, and
                 \* those that a restart did not find in the file

usageVars == <<hour, stamp, made, buckets, usageFile, beating, report, reports,
               misses, unwritten, again, gone>>

In(b) == UNION {b[h] : h \in Hours}
Empty == [h \in Hours |-> {}]
Miss == misses < MaxMisses /\ misses' = misses + 1

\* saveLocked; whoever calls it drops the error.
SaveLocked(b) ==
  \/ usageFile' = b /\ unwritten' = FALSE /\ UNCHANGED misses
  \/ Miss /\ unwritten' = TRUE /\ UNCHANGED usageFile

Stamp(c) ==
  /\ c \notin DOMAIN stamp
  /\ stamp' = [x \in DOMAIN stamp \cup {c} |-> IF x = c THEN hour ELSE stamp[x]]
  /\ UNCHANGED <<hour, made, buckets, usageFile, beating, report, reports, misses,
                 unwritten, again, gone>>

Record(c) ==
  /\ c \in DOMAIN stamp \ made
  /\ made' = made \cup {c}
  /\ buckets' = [buckets EXCEPT ![stamp[c]] = @ \cup {c}]
  /\ SaveLocked(buckets')
  /\ UNCHANGED <<hour, stamp, beating, report, reports, again, gone>>

\* Flush: every bucket but that of the current hour leaves the memory.
Completed == {h \in Hours : h # hour /\ buckets[h] # {}}
RetainedAll == buckets                         \* faulty: nothing is removed
Retained == [h \in Hours |-> IF h \in Completed THEN {} ELSE buckets[h]]

Flush ==
  /\ beating /\ report = {}
  /\ Completed # {}
  /\ report' = UNION {buckets[h] : h \in Completed}
  /\ buckets' = Retained
  /\ SaveLocked(buckets')
  /\ UNCHANGED <<hour, stamp, made, beating, reports, again, gone>>

Told(cs) == [c \in Calls |-> IF c \in cs THEN reports[c] + 1 ELSE reports[c]]

\* ReportUsage, with the tracker unlocked; its error is logged.  The cloud may
\* have the report of a call that failed here.
ReportUsage ==
  /\ report # {}
  /\ report' = {}
  /\ \E arrives, known \in BOOLEAN :
       /\ known => arrives
       /\ IF known THEN UNCHANGED <<misses, gone>>
                   ELSE Miss /\ gone' = gone \cup report
       /\ reports' = Told(IF arrives THEN report ELSE {})
  /\ UNCHANGED <<hour, stamp, made, buckets, usageFile, beating, unwritten, again>>

Hour ==
  /\ hour < MaxHour
  /\ hour' = hour + 1
  /\ UNCHANGED <<stamp, made, buckets, usageFile, beating, report, reports, misses,
                 unwritten, again, gone>>

\* The process ends, in the middle of a save perhaps, which leaves a file that
\* does not parse; it starts again and registers, or goes on without a loop.
Restart ==
  /\ Miss
  /\ \E b \in {usageFile, Empty} : buckets' = b /\ usageFile' = b
  /\ made' = made \cup DOMAIN stamp
  /\ gone' = gone \cup report \cup (DOMAIN stamp \ In(buckets'))
  /\ again' = again \cup (In(buckets') \ In(buckets))
  /\ beating' \in BOOLEAN
  /\ report' = {} /\ unwritten' = FALSE
  /\ \E arrived \in {{}, report} : reports' = Told(arrived)
  /\ UNCHANGED <<hour, stamp>>

UsageInit ==
  /\ hour = 0 /\ stamp = <<>> /\ made = {}
  /\ buckets = Empty /\ usageFile = Empty
  /\ beating \in BOOLEAN
  /\ report = {} /\ reports = [c \in Calls |-> 0]
  /\ misses = 0 /\ unwritten = FALSE /\ again = {} /\ gone = {}

UsageNext ==
  \/ \E c \in Calls : Stamp(c) \/ Record(c)
  \/ Flush \/ ReportUsage
  \/ Hour \/ Restart

UsageSpec == UsageInit /\ [][UsageNext]_usageVars

------------------------------------------------------------------------------
(* Properties.                                                              *)

\* No usage is lost or counted twice on its own: a recorded call waits in a
\* bucket, is being reported, or was reported, once; what is missing was in a
\* report that failed or in a process that ended, and what was reported twice
\* had come back from a file the flush did not get to write.
UsageAccounted ==
  \A c \in made :
    /\ c \in In(buckets) \/ c \in report \/ reports[c] > 0 \/ c \in gone
    /\ reports[c] + Cardinality({x \in {1} : c \in report})
                  + Cardinality({h \in Hours : c \in buckets[h]}) > 1 => c \in again
================================================================================
