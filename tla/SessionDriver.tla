---------------------------- MODULE SessionDriver ----------------------------
(***************************************************************************)
(* The owner-session driver (scripts/session_driver.py): drivers started   *)
(* by hand, several at once, each with a pool of threads, send questions   *)
(* through the gateway.  They share a ledger file: every request reserves  *)
(* its slot there, under a lock file, before it leaves.                    *)
(***************************************************************************)
EXTENDS Integers, FiniteSets

CONSTANTS
  Driver, Worker, Main,      \* Main is the worker that signs in
  MaxRequests, MaxDollars,   \* the caps given to init
  Cost,                      \* worst-case cost of a request, by kind
  Jobs,                      \* questions of an `ask`
  TallyCount,                \* requests one `tally` counts
  CapTestMax, HourlyLimit,   \* questions of a `cap-test`, and where it expects the refusal
  MaxCrash,                  \* bound: drivers killed
  None

RequestKinds == {"exchange", "probe", "answered", "declined"}
Commands == {"ask", "coldstart", "cap-test", "probe", "tally"}
Places == {"reserve", "locked", "saving", "saved", "send", "await", "over"}
Codes == {"usage", "cap", "exchange", "ok", "killed"}
Amounts == [requests : Nat, dollars : Nat]

ASSUME DriverAssumption ==
  /\ IsFiniteSet(Driver) /\ IsFiniteSet(Worker) /\ Main \in Worker
  /\ {MaxRequests, MaxDollars, Jobs, TallyCount, CapTestMax, HourlyLimit} \subseteq Nat
  /\ Cost \in [RequestKinds -> Nat]
  /\ None \notin (Driver \X Worker) \cup Amounts \cup Nat
  /\ None \notin Commands \cup Places \cup Codes \cup {"pass", "inconclusive"}

VARIABLES
  ledger,     \* the file; None before init
  lock,       \* who created the lock file, or None
  command,    \* what a driver was started as
  at,         \* where a thread of a driver is
  copy,       \* the ledger a thread has read and counted itself in
  left,       \* questions a driver's threads have yet to take
  capHit,     \* cap_hit
  broken,     \* a thread raised LedgerError
  verdict,    \* of a cap-test
  code,       \* a driver's exit code
  sent,       \* history: requests a driver has sent
  sentInAll,  \* history: what all drivers have sent, as the file counts it
  crashes

driving == <<ledger, lock, command, at, copy, left, capHit, broken, verdict, code, sent, sentInAll, crashes>>

Thread == Driver \X Worker

Running(d) == command[d] # None /\ code[d] = None

\* The kind of the request a thread is about to send.
Kind(t) ==
  IF command[t[1]] = "tally" THEN "answered"
  ELSE IF command[t[1]] = "probe" THEN "probe"
  ELSE IF left[t[1]] = None THEN "exchange"
  ELSE IF command[t[1]] = "cap-test" THEN "declined"
  ELSE "answered"

Count(t) == IF command[t[1]] = "tally" THEN TallyCount ELSE 1

Worst(t) == Cost[Kind(t)] * Count(t)

----------------------------------------------------------------------------
(* The ledger *)

\* init: the caps are never changed after creation.
CreateLedger ==
  /\ ledger = None /\ lock = None
  /\ ledger' = [requests |-> 0, dollars |-> 0]
  /\ UNCHANGED <<lock, command, at, copy, left, capHit, broken, verdict, code, sent, sentInAll, crashes>>

\* Mutated form: two threads may both create the lock file.
LockAnyway(t) ==
  /\ at[t] = "reserve"
  /\ lock' = t
  /\ at' = [at EXCEPT ![t] = "locked"]
  /\ UNCHANGED <<ledger, command, copy, left, capHit, broken, verdict, code, sent, sentInAll, crashes>>

\* os.open with O_EXCL: one thread of all drivers creates the file.
Lock(t) ==
  /\ at[t] = "reserve" /\ lock = None
  /\ lock' = t
  /\ at' = [at EXCEPT ![t] = "locked"]
  /\ UNCHANGED <<ledger, command, copy, left, capHit, broken, verdict, code, sent, sentInAll, crashes>>

\* The lock stays held for 30 s, or the file is missing: LedgerError.
Fails(t) ==
  /\ (at[t] = "reserve" /\ lock # None) \/ (at[t] = "locked" /\ ledger = None)
  /\ lock' = IF lock = t THEN None ELSE lock
  /\ at' = [at EXCEPT ![t] = "over"]
  /\ broken' = [broken EXCEPT ![t[1]] = TRUE]
  /\ UNCHANGED <<ledger, command, copy, left, capHit, verdict, code, sent, sentInAll, crashes>>

WithinCaps(t) ==
  ledger.requests + Count(t) <= MaxRequests /\ ledger.dollars + Worst(t) <= MaxDollars

\* Reads the file and counts itself in; the new file is written beside it.
Reserve(t) ==
  /\ at[t] = "locked" /\ ledger # None
  /\ WithinCaps(t)
  /\ copy' = [copy EXCEPT ![t] = [requests |-> ledger.requests + Count(t),
                                  dollars |-> ledger.dollars + Worst(t)]]
  /\ at' = [at EXCEPT ![t] = "saving"]
  /\ UNCHANGED <<ledger, lock, command, left, capHit, broken, verdict, code, sent, sentInAll, crashes>>

\* A question that would pass a cap is not sent; the pool goes on to the next.
CapReached(t) ==
  /\ at[t] = "locked" /\ ledger # None
  /\ ~WithinCaps(t)
  /\ lock' = None
  /\ capHit' = [capHit EXCEPT ![t[1]] = TRUE]
  /\ at' = [at EXCEPT ![t] = "over"]
  /\ UNCHANGED <<ledger, command, copy, left, broken, verdict, code, sent, sentInAll, crashes>>

\* os.replace: the new file is in place whole, or not at all.
Save(t) ==
  /\ at[t] = "saving"
  /\ ledger' = copy[t]
  /\ copy' = [copy EXCEPT ![t] = None]
  /\ at' = [at EXCEPT ![t] = "saved"]
  /\ UNCHANGED <<lock, command, left, capHit, broken, verdict, code, sent, sentInAll, crashes>>

Unlock(t) ==
  /\ at[t] = "saved"
  /\ lock' = None
  /\ at' = [at EXCEPT ![t] = IF command[t[1]] = "tally" THEN "over" ELSE "send"]
  /\ UNCHANGED <<ledger, command, copy, left, capHit, broken, verdict, code, sent, sentInAll, crashes>>

\* "If no driver is running, delete it": what a killed driver left behind.
DeleteLock ==
  /\ lock # None
  /\ \A d \in Driver : ~Running(d)
  /\ lock' = None
  /\ UNCHANGED <<ledger, command, at, copy, left, capHit, broken, verdict, code, sent, sentInAll, crashes>>

----------------------------------------------------------------------------
(* The driver *)

Start(d) ==
  /\ command[d] = None
  /\ \E c \in Commands : command' = [command EXCEPT ![d] = c]
  /\ at' = [at EXCEPT ![<<d, Main>>] = "reserve"]
  /\ UNCHANGED <<ledger, lock, copy, left, capHit, broken, verdict, code, sent, sentInAll, crashes>>

Send(t) ==
  /\ at[t] = "send"
  /\ sent' = [sent EXCEPT ![t[1]] = @ + 1]
  /\ sentInAll' = [requests |-> sentInAll.requests + 1, dollars |-> sentInAll.dollars + Worst(t)]
  /\ at' = [at EXCEPT ![t] = "await"]
  /\ UNCHANGED <<ledger, lock, command, copy, left, capHit, broken, verdict, code, crashes>>

Questions(c) == CASE c = "ask" -> Jobs [] c = "coldstart" -> 1 [] c = "cap-test" -> CapTestMax

\* A 200 with the session cookie signs the driver in: its questions can start.
SignedIn(t) ==
  /\ at[t] = "await" /\ Kind(t) = "exchange"
  /\ left' = [left EXCEPT ![t[1]] = Questions(command[t[1]])]
  /\ at' = [at EXCEPT ![t] = "over"]
  /\ UNCHANGED <<ledger, lock, command, copy, capHit, broken, verdict, code, sent, sentInAll, crashes>>

\* Every answer, refusal and error of the gateway is recorded as it is.
Answered(t) ==
  /\ at[t] = "await" /\ Kind(t) # "exchange"
  /\ at' = [at EXCEPT ![t] = "over"]
  /\ UNCHANGED <<ledger, lock, command, copy, left, capHit, broken, verdict, code, sent, sentInAll, crashes>>

\* A cap-test stops at the first 429; only the hourly cap where it is expected is a pass.
Refused(t) ==
  /\ at[t] = "await" /\ command[t[1]] = "cap-test" /\ Kind(t) # "exchange"
  /\ \E cap \in {"session_limit", "daily_limit"} :
       verdict' = [verdict EXCEPT ![t[1]] =
         IF cap = "session_limit" /\ CapTestMax - left[t[1]] = HourlyLimit + 1
         THEN "pass" ELSE "inconclusive"]
  /\ left' = [left EXCEPT ![t[1]] = 0]
  /\ at' = [at EXCEPT ![t] = "over"]
  /\ UNCHANGED <<ledger, lock, command, copy, capHit, broken, code, sent, sentInAll, crashes>>

\* A free thread of the pool takes the next question; only `ask` has a pool.  After a cap its
\* threads go on to the questions left; an error cancels those nobody took, once it is noticed.
NextQuestion(t) ==
  LET d == t[1] IN
  /\ Running(d) /\ at[t] \in {None, "over"}
  /\ left[d] # None /\ left[d] # 0
  /\ command[d] # "ask" =>
       t[2] = Main /\ ~capHit[d] /\ ~broken[d]
  /\ left' = [left EXCEPT ![d] = @ - 1]
  /\ at' = [at EXCEPT ![t] = "reserve"]
  /\ UNCHANGED <<ledger, lock, command, copy, capHit, broken, verdict, code, sent, sentInAll, crashes>>

Idle(d) == \A w \in Worker : at[<<d, w>>] \in {None, "over"}

\* The questions are over: all taken, cancelled by an error, or ended by a cap in a sequence.
AtEnd(d) == left[d] = 0 \/ broken[d] \/ (command[d] # "ask" /\ capHit[d])

\* The exit code: an error outranks a cap, and a failed sign-in without a cap has its own.
ExitCode(d) ==
  IF broken[d] THEN "usage"
  ELSE IF capHit[d] THEN "cap"
  ELSE IF left[d] = None /\ command[d] \in {"ask", "coldstart"} THEN "exchange"
  ELSE "ok"

Exit(d) ==
  /\ Running(d) /\ Idle(d) /\ at[<<d, Main>>] = "over"
  /\ left[d] = None \/ AtEnd(d)
  /\ code' = [code EXCEPT ![d] = ExitCode(d)]
  /\ verdict' = [verdict EXCEPT ![d] = IF command[d] = "cap-test" /\ @ = None THEN "inconclusive" ELSE @]
  /\ UNCHANGED <<ledger, lock, command, at, copy, left, capHit, broken, sent, sentInAll, crashes>>

\* The exchange was refused, or nothing answered.
NotSignedIn(t) ==
  /\ at[t] = "await" /\ Kind(t) = "exchange"
  /\ at' = [at EXCEPT ![t] = "over"]
  /\ UNCHANGED <<ledger, lock, command, copy, left, capHit, broken, verdict, code, sent, sentInAll, crashes>>

\* A killed driver leaves its lock file; a request it had sent stays sent.
KillDriver(d) ==
  /\ Running(d) /\ crashes < MaxCrash
  /\ code' = [code EXCEPT ![d] = "killed"]
  /\ at' = [t \in Thread |-> IF t[1] = d THEN "over" ELSE at[t]]
  /\ crashes' = crashes + 1
  /\ UNCHANGED <<ledger, lock, command, copy, left, capHit, broken, verdict, sent, sentInAll>>

DriverInit ==
  /\ ledger = None /\ lock = None
  /\ command = [d \in Driver |-> None]
  /\ at = [t \in Thread |-> None]
  /\ copy = [t \in Thread |-> None]
  /\ left = [d \in Driver |-> None]
  /\ capHit = [d \in Driver |-> FALSE] /\ broken = [d \in Driver |-> FALSE]
  /\ verdict = [d \in Driver |-> None] /\ code = [d \in Driver |-> None]
  /\ sent = [d \in Driver |-> 0] /\ sentInAll = [requests |-> 0, dollars |-> 0] /\ crashes = 0

DriverNext ==
  \/ CreateLedger \/ DeleteLock
  \/ \E d \in Driver : Start(d) \/ Exit(d) \/ KillDriver(d)
  \/ \E t \in Thread :
       \/ Lock(t) \/ Fails(t) \/ Reserve(t) \/ CapReached(t) \/ Save(t) \/ Unlock(t)
       \/ Send(t) \/ SignedIn(t) \/ NotSignedIn(t) \/ Answered(t) \/ Refused(t) \/ NextQuestion(t)

DriverSpec == DriverInit /\ [][DriverNext]_driving

----------------------------------------------------------------------------
(* Properties *)

\* Whatever is killed, and however drivers and threads interleave, every request that left was
\* counted in the file before, so the caps hold for what was really sent; an `ask` that exits with
\* 0 has sent every question; and a cap-test passes only with the question after the hourly limit.
SentIsCounted ==
  /\ sentInAll.requests > 0 => ledger # None
  /\ ledger # None =>
       /\ sentInAll.requests <= ledger.requests /\ ledger.requests <= MaxRequests
       /\ sentInAll.dollars <= ledger.dollars /\ ledger.dollars <= MaxDollars
  /\ \A d \in Driver :
       /\ code[d] = "ok" /\ command[d] = "ask" => sent[d] = 1 + Jobs
       /\ verdict[d] = "pass" => sent[d] = 1 + HourlyLimit + 1
=============================================================================
