-------------------------------- MODULE Agent --------------------------------
(***************************************************************************)
(* The agent (internal/agent) in the mode cmd/agent/main.go starts it in:  *)
(* two collectors, the goroutine that polls them, and main, which reports  *)
(* what was polled in batches, by an HTTP client that tries again, to a    *)
(* server that keeps the promise of MetricStore.                           *)
(*                                                                         *)
(*   - the poll goroutine stores into the slice main reads, with no lock:  *)
(*     the words of a slice header are stored one after the other;         *)
(*   - PollCount is reported by a pointer to the live counter, which is    *)
(*     never reset, and the server adds what it gets;                      *)
(*   - a sending whose connection breaks may still reach the storage: one  *)
(*     the agent has given up may be at work beside the next.              *)
(*                                                                         *)
(* A sample is the number of the poll it is for; the gauges of a report    *)
(* are the samples of the two collectors.  A tick is possible at any time. *)
(* The server keeps its metrics in memory and takes the items of a batch   *)
(* one by one, with no lock.  Of the gauges, each of which is set in the   *)
(* same way, one stands for all.  The server stays up, and every request   *)
(* has an object of its own: MemStorage and PooledUpdate say what happens  *)
(* otherwise.                                                              *)
(***************************************************************************)
EXTENDS Naturals, Sequences, FiniteSets

CONSTANTS
  RetryMax,    (* how often a sending is tried again (3 in the code)          *)
  Configs,     (* how agent and server may be configured: subset of Config    *)
  MaxPolls,    (* bound: how often the poll ticker ticks                      *)
  MaxReports,  (* bound: reports with content                                 *)
  MaxBegun     (* bound: sendings the server begins with and leaves unanswered*)

(* hash: whether both sides have a key, and the same; whether the agent       *)
(* encrypts, and the server decrypts.                                         *)
Config == [hash : {"off", "same", "differ"}, encrypts : BOOLEAN, decrypts : BOOLEAN]

ASSUME AgentAssumption ==
  /\ {RetryMax, MaxPolls, MaxBegun} \subseteq Nat /\ MaxReports \in Nat \ {0}
  /\ Configs \subseteq Config

Reports  == 1 .. MaxReports
Sendings == Reports \X (1 .. RetryMax + 1)
Empty    == [mem |-> 0, gops |-> 0]
Report   == [mem : Nat, gops : Nat, count : Nat]

VARIABLES
  cfg,
  pollCount,   (* a.pollCount                                                 *)
  cpc,         (* where CollectRuntimeMetrics is                              *)
  memIn,       (* its channel, of one                                         *)
  ppc,         (* where the poll goroutine is                                 *)
  polled,      (* its memoryMetrics                                           *)
  len, array,  (* the slice memoryStatistics: whether its length is not 0,    *)
               (* and what it points to                                       *)
  mpc,         (* where SendAllMetrics is                                     *)
  last,        (* it is in the branch of ctx.Done                             *)
  signal,      (* ctx is done                                                 *)
  rep,         (* the reports made                                            *)
  tried,       (* how often each was sent                                     *)
  effect, answer,   (* what MetricStore keeps of them                         *)
  base,        (* the PollCount each has read and not yet added to            *)
  counter,     (* PollCount at the server                                     *)
  shown,       (* the poll its gauge is of                                    *)
  overlap,     (* history: PollCount was stored while another had read it     *)
  atSignal     (* history: the poll that was stored when the signal came      *)

pollVars   == <<pollCount, cpc, memIn, ppc, polled, len, array>>
mainVars   == <<mpc, last, rep, tried>>
serverVars == <<effect, answer, base, counter, shown, overlap>>
vars == <<cfg, pollVars, mainVars, signal, serverVars, atSignal>>

Over    == {"ended", "failed", "crashed"}
Running == mpc \notin Over
Made    == Len(rep)
Sending == <<Made, tried[Made]>>

(* memoryStatistics was read while the first poll was being stored.           *)
Garbage(r) == r \in DOMAIN rep /\ rep[r].mem = 0

(* The items of a batch, in their order: a gauge of CollectRuntimeMetrics,    *)
(* and PollCount.                                                             *)
Items == {1, 2}

(* Each sending is a call of a storage, with one batch.  Metrics without a    *)
(* type are none it knows.                                                    *)
Batch(r) == [items |-> IF Garbage(r) THEN {} ELSE Items, times |-> 1, complete |-> ~Garbage(r)]
Store == INSTANCE MetricStore WITH
           Calls <- Sendings, call <- [s \in Sendings |-> Batch(s[1])]

-------------------------------------------------------------------------------
Init ==
  /\ cfg \in Configs
  /\ pollCount = 0 /\ cpc = "build" /\ memIn = <<>>
  /\ ppc = "select" /\ polled = Empty /\ len = FALSE /\ array = Empty
  /\ mpc = "select" /\ last = FALSE /\ signal = FALSE
  /\ rep = <<>> /\ tried = [r \in Reports |-> 0]
  /\ effect = [s \in Sendings |-> [k \in Items |-> 0]] /\ answer = [s \in Sendings |-> "none"]
  /\ base = [s \in Sendings |-> <<>>] /\ counter = 0 /\ shown = 0
  /\ overlap = FALSE /\ atSignal = 0

-------------------------------------------------------------------------------
(* The collectors.                                                            *)

(* A result for the next poll is made, with a pointer to pollCount, and       *)
(* counted.                                                                   *)
Build ==
  /\ Running /\ cpc = "build" /\ cpc' = "offer"
  /\ pollCount' = pollCount + 1
  /\ UNCHANGED <<cfg, memIn, ppc, polled, len, array, mainVars, signal, serverVars, atSignal>>

(* Mutant: a sample that was not polled gives way to the next one.           *)
OfferNewest ==
  /\ Running /\ cpc = "offer"
  /\ memIn' = <<pollCount>> /\ cpc' = "build"
  /\ UNCHANGED <<cfg, pollCount, ppc, polled, len, array, mainVars, signal, serverVars, atSignal>>

Offer ==
  /\ Running /\ cpc = "offer" /\ memIn = <<>>
  /\ memIn' = <<pollCount>> /\ cpc' = "build"
  /\ UNCHANGED <<cfg, pollCount, ppc, polled, len, array, mainVars, signal, serverVars, atSignal>>

-------------------------------------------------------------------------------
(* The poll goroutine.                                                        *)

(* A tick, and the channel of the one collector.                              *)
ReceiveMem ==
  /\ Running /\ ppc = "select" /\ memIn # <<>>
  /\ polled.mem < MaxPolls
  /\ polled' = [polled EXCEPT !.mem = Head(memIn)]
  /\ memIn' = <<>> /\ ppc' = "gopsIn"
  /\ UNCHANGED <<cfg, pollCount, cpc, len, array, mainVars, signal, serverVars,
                 atSignal>>

(* CollectGopsutilMetrics has no more than the one sample it waits to hand    *)
(* over: making it is a part of this.                                         *)
ReceiveGops ==
  /\ Running /\ ppc = "gopsIn" /\ ppc' = "length"
  /\ polled' = [polled EXCEPT !.gops = @ + 1]
  /\ UNCHANGED <<cfg, pollCount, cpc, memIn, len, array, mainVars, signal, serverVars,
                 atSignal>>

(* *memoryStatistics = memoryMetrics: the length, then the pointer.           *)
StoreLength ==
  /\ Running /\ ppc = "length"
  /\ len' = TRUE /\ ppc' = "pointer"
  /\ UNCHANGED <<cfg, pollCount, cpc, memIn, polled, array, mainVars, signal, serverVars, atSignal>>

StorePointer ==
  /\ Running /\ ppc = "pointer"
  /\ array' = polled /\ ppc' = "select"
  /\ UNCHANGED <<cfg, pollCount, cpc, memIn, polled, len, mainVars, signal, serverVars, atSignal>>

PollEnds ==
  /\ Running /\ ppc = "select" /\ signal
  /\ ppc' = "gone"
  /\ UNCHANGED <<cfg, pollCount, cpc, memIn, polled, len, array, mainVars, signal,
                 serverVars, atSignal>>

-------------------------------------------------------------------------------
(* SendAllMetrics: the choice between the report ticker and the signal.       *)

Signal ==
  /\ Running /\ ~signal /\ signal' = TRUE
  /\ atSignal' = array.mem
  /\ UNCHANGED <<cfg, pollVars, mainVars, serverVars>>

(* The bound leaves a report for Done.                                        *)
ReportTick ==
  /\ mpc = "select" /\ mpc' = "check"
  /\ Made + 1 < MaxReports
  /\ UNCHANGED <<cfg, pollVars, last, rep, tried, signal, serverVars, atSignal>>

(* Mutant: nothing is sent any more.                                         *)
DoneAtOnce ==
  /\ mpc = "select" /\ signal
  /\ last' = TRUE /\ mpc' = "ended"
  /\ UNCHANGED <<cfg, pollVars, rep, tried, signal, serverVars, atSignal>>

(* Mutant: "break" ends the choice, not the loop.                            *)
DoneBreaks ==
  /\ mpc = "select" /\ signal
  /\ Made < MaxReports /\ mpc' = "check"
  /\ UNCHANGED <<cfg, pollVars, last, rep, tried, signal, serverVars, atSignal>>

Done ==
  /\ mpc = "select" /\ signal
  /\ last' = TRUE /\ mpc' = "check"
  /\ UNCHANGED <<cfg, pollVars, rep, tried, signal, serverVars, atSignal>>

(* SendMetrics returns nil.                                                   *)
Return == mpc' = IF last THEN "ended" ELSE "select"

-------------------------------------------------------------------------------
(* SendMetrics.                                                               *)

(* len(memoryStatistics) == 0                                                 *)
Check ==
  /\ mpc = "check"
  /\ IF len THEN mpc' = "header" ELSE Return
  /\ UNCHANGED <<cfg, pollVars, last, rep, tried, signal, serverVars, atSignal>>

(* json.Marshal(memoryStatistics) copies the header.  A length without its    *)
(* array makes it read other memory, which it may survive or not.             *)
Header ==
  /\ mpc = "header"
  /\ rep' = Append(rep, [mem |-> array.mem, gops |-> array.gops, count |-> 0])
  /\ mpc' \in {"encode"} \union (IF array = Empty THEN {"crashed"} ELSE {})
  /\ UNCHANGED <<cfg, pollVars, last, tried, signal, serverVars, atSignal>>

(* What is left to do after RetrieveEncrypt, which fails for a key that is    *)
(* missing and for a body that is as long as the key: SendAllMetrics ends.    *)
AfterEncrypt == {"send"} \union (IF cfg.encrypts THEN {"failed"} ELSE {})

(* json.Marshal follows the pointer to pollCount; the body is compressed and  *)
(* encrypted.                                                                 *)
Encode ==
  /\ mpc = "encode" /\ mpc' \in AfterEncrypt
  /\ rep' = IF Garbage(Made) THEN rep ELSE [rep EXCEPT ![Made].count = pollCount]
  /\ UNCHANGED <<cfg, pollVars, last, tried, signal, serverVars, atSignal>>

(* client.Do, one sending of it, which may reach the server or not.           *)
Send ==
  /\ mpc = "send" /\ mpc' = "wait"
  /\ tried' = [tried EXCEPT ![Made] = @ + 1]
  /\ UNCHANGED <<cfg, pollVars, last, rep, signal, serverVars, atSignal>>

(* Mutant: one sending too many.                                             *)
RetryOnceMore == IF tried[Made] <= RetryMax + 1 THEN mpc' = "send" ELSE Return

(* It is sent again, or given up: "Server unreachable".                       *)
Retry == IF tried[Made] <= RetryMax THEN mpc' = "send" ELSE Return

(* An answer of 5xx is like none; one of 400 or 401 is like 200.              *)
Receive ==
  /\ mpc = "wait" /\ answer[Sending] # "none"
  /\ IF answer[Sending] = "error" THEN Retry ELSE Return
  /\ UNCHANGED <<cfg, pollVars, last, rep, tried, signal, serverVars, atSignal>>

(* Mutant: a client that does not try again.                                 *)
LoseForGood ==
  /\ mpc = "wait" /\ answer[Sending] = "none" /\ Return
  /\ UNCHANGED <<cfg, pollVars, last, rep, tried, signal, serverVars, atSignal>>

(* The connection is refused, or breaks before an answer has come, while the  *)
(* server knows of the sending or does not.                                   *)
Lose ==
  /\ mpc = "wait" /\ answer[Sending] = "none" /\ Retry
  /\ UNCHANGED <<cfg, pollVars, last, rep, tried, signal, serverVars, atSignal>>

-------------------------------------------------------------------------------
(* The server.                                                                *)

(* The hash is of the body before it is encrypted, and compared with that of  *)
(* the body as it comes in.                                                   *)
HashVerified == cfg.hash = "off" \/ (cfg.hash = "same" /\ ~cfg.encrypts)
Readable     == HashVerified /\ cfg.encrypts = cfg.decrypts

(* What the server does with a batch, be it after the agent has stopped       *)
(* waiting for an answer.                                                     *)
Begun == {s \in Sendings : effect[s][1] = 1 /\ answer[s] = "none"}

Arrived(s) == s[2] <= tried[s[1]] /\ Readable

Take(s, k) == Store!TakeEffect(s) /\ effect' = [effect EXCEPT ![s][k] = 1]

(* Mutant: the body is gone when it is sent again.                           *)
SetConsumed(s) ==
  /\ Arrived(s) /\ Cardinality(Begun) < MaxBegun
  /\ Take(s, 1)
  /\ shown' = IF s[2] = 1 THEN rep[s[1]].mem ELSE 0
  /\ UNCHANGED <<cfg, pollVars, mainVars, signal, base, counter, overlap, atSignal>>

(* The gauge is set.                                                          *)
SetGauge(s) ==
  /\ Arrived(s) /\ Cardinality(Begun) < MaxBegun
  /\ Take(s, 1)
  /\ shown' = rep[s[1]].mem
  /\ UNCHANGED <<cfg, pollVars, mainVars, signal, base, counter, overlap, atSignal>>

(* PollCount is read, the whole count of the report added, and the sum stored.*)
ReadCount(s) ==
  /\ effect[s] = <<1, 0>> /\ base[s] = <<>>
  /\ base' = [base EXCEPT ![s] = <<counter>>]
  /\ UNCHANGED <<cfg, pollVars, mainVars, signal, effect, answer, counter, shown, overlap, atSignal>>

(* Mutant: PollCount is set, like a gauge.                                   *)
StoreSets(s) ==
  /\ base[s] # <<>> /\ Take(s, 2)
  /\ counter' = rep[s[1]].count
  /\ base' = [base EXCEPT ![s] = <<>>]
  /\ overlap' = (overlap \/ \E t \in Sendings \ {s} : base[t] # <<>>)
  /\ UNCHANGED <<cfg, pollVars, mainVars, signal, shown, atSignal>>

StoreCount(s) ==
  /\ base[s] # <<>> /\ Take(s, 2)
  /\ counter' = base[s][1] + rep[s[1]].count
  /\ base' = [base EXCEPT ![s] = <<>>]
  /\ overlap' = (overlap \/ \E t \in Sendings \ {s} : base[t] # <<>>)
  /\ UNCHANGED <<cfg, pollVars, mainVars, signal, shown, atSignal>>

(* 200, 400 or 401, and 500 for metrics without a type.                       *)
Answer ==
  /\ mpc = "wait"
  /\ Store!Tell(Sending, IF ~Readable THEN "refused" ELSE IF Garbage(Made) THEN "error" ELSE "ok")
  /\ UNCHANGED <<cfg, pollVars, mainVars, signal, base, counter, shown, overlap, atSignal>>

-------------------------------------------------------------------------------
Poll == Build \/ Offer \/ ReceiveMem \/ ReceiveGops \/ StoreLength \/ StorePointer \/ PollEnds
SendMetrics == Check \/ Header \/ Encode \/ Send

Next ==
  \/ Poll \/ Signal \/ ReportTick \/ Done \/ SendMetrics \/ Receive \/ Lose
  \/ Answer \/ \E s \in Sendings : SetGauge(s) \/ ReadCount(s) \/ StoreCount(s)

Spec == Init /\ [][Next]_vars

(* main takes its steps; select chooses at random, so that Done, possible     *)
(* again and again, is chosen.  Nothing makes the server answer or the        *)
(* connection break: client and request have no timeout.                      *)
Fairness == WF_vars(SendMetrics) /\ SF_vars(Done)

FairSpec == Spec /\ Fairness

-------------------------------------------------------------------------------
(* Properties.                                                               *)

TypeOK ==
  /\ cfg \in Configs
  /\ pollCount \in Nat /\ cpc \in {"build", "offer"}
  /\ memIn \in Seq(Nat) /\ Len(memIn) <= 1
  /\ ppc \in {"select", "gopsIn", "length", "pointer", "gone"}
  /\ {polled, array} \subseteq [mem : Nat, gops : Nat] /\ len \in BOOLEAN
  /\ mpc \in Over \union {"select", "check", "header", "encode", "send", "wait"}
  /\ {last, signal} \subseteq BOOLEAN
  /\ rep \in Seq(Report) /\ Len(rep) <= MaxReports
  /\ tried \in [Reports -> 0 .. RetryMax + 1]
  /\ effect \in [Sendings -> [Items -> 0 .. 1]]
  /\ answer \in [Sendings -> {"none", "ok", "refused", "error"}]
  /\ base \in [Sendings -> Seq(Nat)] /\ \A s \in Sendings : Len(base[s]) <= 1
  /\ {counter, shown, atSignal} \subseteq Nat /\ overlap \in BOOLEAN

(* pollCount runs ahead of the poll that is stored, by three at most: one     *)
(* sample in the channel, one in the hand of the collector, one in that of    *)
(* the poll goroutine.  This is what a report says too much.                  *)
CountAhead == pollCount \in array.mem .. array.mem + 3

(* A report is of one poll, of both collectors, and counts at least the polls *)
(* up to it; no report is older than one before it, and none counts less.     *)
(* (What was read while the first poll was being stored is of poll zero.)     *)
Encoded(r) == r \in DOMAIN rep /\ (r = Made => mpc \notin {"encode", "crashed"})

ReportsSound ==
  \A r \in Reports : Encoded(r) =>
    /\ rep[r].mem = rep[r].gops
    /\ rep[r].mem <= rep[r].count
    /\ \A q \in 1 .. r - 1 : rep[q].mem <= rep[r].mem /\ rep[q].count <= rep[r].count

(* PollCount at the server is at least the number of polls up to any report   *)
(* it was added from, as long as no sending had read it while another stored  *)
(* it, which takes one the agent has given up.  And as the whole count is     *)
(* added every time, only the number of sendings it was added from bounds it. *)
Applied == {s \in Sendings : effect[s][2] = 1}

PollCountBounds ==
  /\ ~overlap => \A s \in Applied : rep[s[1]].mem <= counter
  /\ counter <= Cardinality(Applied) * pollCount

(* The gauge of the server goes back to an older poll only by a sending the     *)
(* agent no longer waits for.                                                 *)
NoStepBack ==
  [][shown' < shown => \E s \in Sendings : effect[s] # effect'[s]
                                            /\ ~(mpc = "wait" /\ s = Sending)]_vars

(* A report the agent is done with has taken effect, every item of it, unless *)
(* it was sent as often as the client tries, the configurations do not go     *)
(* together, or it was garbage.                                               *)
DoneWith(r) == r < Made \/ (r = Made /\ mpc \in {"select", "check", "header", "ended"})

SentUnlessAllTried ==
  \A r \in Reports : DoneWith(r) =>
    \/ \E s \in Sendings : s[1] = r /\ \A k \in Items : effect[s][k] = 1
    \/ tried[r] = RetryMax + 1
    \/ ~Readable \/ Garbage(r)

(* An agent that ends without an error has sent, or tried to, a report of the *)
(* poll that was stored when the signal came, or of a later one.              *)
SignalFlushes ==
  mpc = "ended" /\ atSignal > 0 =>
    \E r \in DOMAIN rep : rep[r].mem >= atSignal /\ tried[r] > 0

(* Once the signal has come, the agent ends, with an error or without, or     *)
(* waits for ever for the answer to one sending.                              *)
AgentEnds == <>[](signal => ~Running \/ mpc = "wait")
==============================================================================
