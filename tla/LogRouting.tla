----------------------------- MODULE LogRouting -----------------------------
(***************************************************************************)
(* LogRouter of observability/logging.py: threads emit records to sinks    *)
(* that may fail.  A failure is reported through the sinks that took the   *)
(* record, or to the fallback stream; a sink that fails too often in a row *)
(* is disabled.  The lock is held for the bookkeeping, not for a delivery. *)
(***************************************************************************)
EXTENDS Integers, FiniteSets

CONSTANTS Sinks,
          Writers,    \* the threads that log
          MaxFailures, \* max_consecutive_failures
          MaxRecords  \* bound: records per thread

ASSUME RouterAssumption ==
    IsFiniteSet(Sinks) /\ MaxFailures \in Nat \ {0} /\ MaxRecords \in Nat

VARIABLES active,   \* _sinks
          disabled, \* _disabled
          failures, \* _failures, 0 for a sink without an entry
          emission, \* per thread: the record it is emitting, or Idle
          emitted   \* per thread: records begun

logVars == <<active, disabled, failures, emission, emitted>>

(* phase; the sinks to try; those that failed and are not reported yet;    *)
(* those that took the record; whether the fallback got the record; the    *)
(* failed sinks somebody was told about.                                   *)
Idle == [phase |-> "idle", targets |-> {}, failed |-> {}, survivors |-> {},
         spilled |-> FALSE, told |-> {}, lost |-> {}]

LogTypes ==
    /\ active \subseteq Sinks /\ disabled \subseteq Sinks
    /\ failures \in [Sinks -> Nat] /\ emitted \in [Writers -> 0..MaxRecords]
    /\ \A w \in Writers : /\ emission[w].phase \in {"idle", "fanning", "reporting", "done"}
                          /\ emission[w].targets \cup emission[w].failed \subseteq Sinks

LogInit ==
    /\ active = Sinks /\ disabled = {} /\ failures = [s \in Sinks |-> 0]
    /\ emission = [w \in Writers |-> Idle] /\ emitted = [w \in Writers |-> 0]

-----------------------------------------------------------------------------

(* emit copies the sinks under the lock.                                   *)
BeginEmit(w) ==
    /\ emission[w].phase \in {"idle", "done"} /\ emitted[w] < MaxRecords
    /\ emitted' = [emitted EXCEPT ![w] = @ + 1]
    /\ emission' = [emission EXCEPT ![w] = [Idle EXCEPT !.phase = "fanning",
                                                        !.targets = active]]
    /\ UNCHANGED <<active, disabled, failures>>

(* A sink takes the record: _note_success forgets its failures.            *)
Delivered(w, s) ==
    /\ emission[w].phase = "fanning" /\ s \in emission[w].targets
    /\ emission' = [emission EXCEPT ![w].targets = @ \ {s}, ![w].survivors = @ \cup {s}]
    /\ failures' = [failures EXCEPT ![s] = 0]
    /\ UNCHANGED <<active, disabled, emitted>>

SinkFails(w, s) ==
    /\ emission[w].phase = "fanning" /\ s \in emission[w].targets
    /\ emission' = [emission EXCEPT ![w].targets = @ \ {s}, ![w].failed = @ \cup {s},
                                    ![w].lost = @ \cup {s}]
    /\ UNCHANGED <<active, disabled, failures, emitted>>

(* Every sink was tried.  A record that none took goes to the fallback.    *)
NeedsFallback(e) == e.failed # {} /\ e.survivors = {}

FannedOut(w) ==
    LET e == emission[w] IN
    /\ e.phase = "fanning" /\ e.targets = {}
    /\ emission' = [emission EXCEPT ![w].phase = IF e.failed = {} THEN "done" ELSE "reporting",
                                    ![w].spilled = NeedsFallback(e)]
    /\ UNCHANGED <<active, disabled, failures, emitted>>

\* Mutant: the fallback only if there was nobody to ask.
SpillsUnasked(survivors, heard) == survivors = {}

(* _report_failure: count, disable at the limit, and tell; the notice goes *)
(* to the sinks that took the record, and to the fallback if there is none *)
(* or if every one of them fails on the notice.                            *)
NoticeSpills(survivors, heard) == heard = {}

Disable(s) ==
    IF failures[s] + 1 >= MaxFailures /\ s \in active
    THEN active' = active \ {s} /\ disabled' = disabled \cup {s}
    ELSE UNCHANGED <<active, disabled>>

ReportFailure(w, s) ==
    LET e == emission[w] IN
    /\ e.phase = "reporting" /\ s \in e.failed
    /\ failures' = [failures EXCEPT ![s] = @ + 1]
    /\ Disable(s)
    /\ \E heard \in SUBSET e.survivors :
        emission' = [emission EXCEPT
            ![w].failed = @ \ {s},
            ![w].told = IF heard # {} \/ NoticeSpills(e.survivors, heard) THEN @ \cup {s} ELSE @,
            ![w].phase = IF e.failed = {s} THEN "done" ELSE @]
    /\ UNCHANGED emitted

(* The operator adds a sink, a disabled one too, or takes one away.        *)
AddSink(s) ==
    /\ s \notin active
    /\ active' = active \cup {s} /\ failures' = [failures EXCEPT ![s] = 0]
    /\ UNCHANGED <<disabled, emission, emitted>>

RemoveSink(s) ==
    /\ s \in active \cup disabled
    /\ IF s \in active THEN active' = active \ {s} /\ UNCHANGED disabled
       ELSE disabled' = disabled \ {s} /\ UNCHANGED active
    /\ failures' = [failures EXCEPT ![s] = 0]
    /\ UNCHANGED <<emission, emitted>>

LogNext ==
    \/ \E w \in Writers : \/ BeginEmit(w) \/ FannedOut(w)
                          \/ \E s \in Sinks : \/ Delivered(w, s) \/ SinkFails(w, s)
                                              \/ ReportFailure(w, s)
    \/ \E s \in Sinks : AddSink(s) \/ RemoveSink(s)

LogSpec == LogInit /\ [][LogNext]_logVars

(* LogRouter, failure policy 2 to 4, with two threads in it: a record some *)
(* sink failed on was taken by another sink or spilled to the fallback,    *)
(* each sink that failed was told of, and a sink that has failed as often  *)
(* in a row as the limit is active no more.                                *)
LossIsVisible ==
    /\ \A w \in Writers : emission[w].phase = "done" =>
        /\ emission[w].lost # {} => emission[w].survivors # {} \/ emission[w].spilled
        /\ emission[w].told = emission[w].lost
    /\ \A s \in active : failures[s] < MaxFailures

=============================================================================
