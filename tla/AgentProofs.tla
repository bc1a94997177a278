----------------------------- MODULE AgentProofs -----------------------------
(***************************************************************************)
(* Theorems about Agent, for any configurations, numbers of tries, polls   *)
(* and reports.                                                            *)
(***************************************************************************)
EXTENDS Agent, FiniteSetTheorems, TLAPS

(* Who moves leaves the rest alone.                                           *)
Main   == ReportTick \/ Done \/ SendMetrics \/ Receive \/ Lose
Work(s) == SetGauge(s) \/ ReadCount(s) \/ StoreCount(s)
Server  == Answer \/ \E s \in Sendings : Work(s)

LEMMA PollFrame == Poll => UNCHANGED <<cfg, mainVars, signal, serverVars, atSignal>>
BY DEF Poll, Build, Offer, ReceiveMem, ReceiveGops, StoreLength, StorePointer, PollEnds

LEMMA MainFrame == Main => UNCHANGED <<cfg, pollVars, signal, serverVars, atSignal>>
BY DEF Main, ReportTick, Done, SendMetrics, Check, Header, Encode, Send, Receive, Lose

LEMMA ServerFrame == Server => UNCHANGED <<cfg, pollVars, mainVars, signal, atSignal>>
BY DEF Server, Answer, Work, SetGauge, ReadCount, StoreCount

LEMMA Steps == [Next]_vars => Poll \/ Signal \/ Main \/ Server \/ UNCHANGED vars
BY DEF Next, Main, Server, Work

-------------------------------------------------------------------------------
(* The way of a sample: the collector, its channel, the poll goroutine.       *)

PollType ==
  /\ pollCount \in Nat /\ cpc \in {"build", "offer"}
  /\ ppc \in {"select", "gopsIn", "length", "pointer", "gone"}
  /\ polled \in [mem : Nat, gops : Nat] /\ array \in [mem : Nat, gops : Nat] /\ len \in BOOLEAN
  /\ memIn = <<>> \/ \E n \in Nat : memIn = <<n>>

Offered == IF cpc = "offer" THEN pollCount - 1 ELSE pollCount

(* Each holder of a sample is one poll ahead of the next one.                 *)
Pipe ==
  /\ cpc = "offer" => pollCount >= 1
  /\ \/ memIn = <<>> /\ polled.mem = Offered
     \/ memIn = <<Offered>> /\ polled.mem + 1 = Offered
  /\ polled.mem = IF ppc \in {"select", "gone"} THEN array.mem ELSE array.mem + 1
  /\ polled.gops = IF ppc = "gopsIn" THEN array.mem ELSE polled.mem
  /\ array.gops = array.mem
  /\ array.mem > 0 \/ ppc = "pointer" => len

Polling == PollType /\ Pipe

LEMMA InitPolling == Init => Polling
<1> SUFFICES ASSUME Init PROVE Polling
  OBVIOUS
<1>1. Empty \in [mem : Nat, gops : Nat] /\ Empty.mem = 0 /\ Empty.gops = 0
  BY DEF Empty
<1>2. /\ pollCount = 0 /\ cpc = "build" /\ memIn = <<>> /\ ppc = "select"
      /\ polled = Empty /\ len = FALSE /\ array = Empty
  BY DEF Init
<1>3. PollType
  BY <1>1, <1>2 DEF PollType
<1>4. Pipe
  BY <1>1, <1>2 DEF Pipe, Offered
<1> QED
  BY <1>3, <1>4 DEF Polling

LEMMA NextPolling == ASSUME Polling, [Next]_vars PROVE Polling' /\ array.mem <= array'.mem /\ pollCount <= pollCount'
<1> USE DEF Polling, PollType, Pipe, Offered
<1>1. CASE UNCHANGED pollVars
  BY <1>1 DEF pollVars
<1>2. CASE Build
  BY <1>2 DEF Build
<1>3. CASE Offer
  BY <1>3 DEF Offer
<1>4. CASE ReceiveMem
  <2>1. /\ memIn = <<Offered>> /\ polled' = [polled EXCEPT !.mem = Offered] /\ memIn' = <<>>
        /\ ppc = "select" /\ ppc' = "gopsIn" /\ UNCHANGED <<pollCount, cpc, len, array>>
    BY <1>4 DEF ReceiveMem
  <2> QED
    BY <2>1
<1>5. CASE ReceiveGops
  BY <1>5 DEF ReceiveGops
<1>6. CASE StoreLength
  BY <1>6 DEF StoreLength
<1>7. CASE StorePointer
  BY <1>7 DEF StorePointer
<1>8. CASE PollEnds
  BY <1>8 DEF PollEnds
<1>9. Signal \/ Main \/ Server \/ UNCHANGED vars => UNCHANGED pollVars
  BY MainFrame, ServerFrame DEF Signal, vars
<1> QED
  BY <1>1, <1>2, <1>3, <1>4, <1>5, <1>6, <1>7, <1>8, <1>9, Steps DEF Poll

(* The inductive invariant of the collectors and the poll goroutine.          *)
THEOREM PollingInvariant == Spec => []Polling
<1> QED
  BY InitPolling, NextPolling, PTL DEF Spec

(* What a report counts too much: the live PollCount is ahead of the poll     *)
(* whose gauges are reported by three at most (one sample in the channel, one *)
(* with the collector, one with the poll goroutine).                          *)
THEOREM CountAheadInvariant == Spec => []CountAhead
<1>1. Polling => CountAhead
  BY DEF Polling, PollType, Pipe, Offered, CountAhead
<1> QED
  BY <1>1, PollingInvariant, PTL

-------------------------------------------------------------------------------
(* The reports, and how often each was sent.                                  *)

MainType ==
  /\ mpc \in Over \union {"select", "check", "header", "encode", "send", "wait"}
  /\ last \in BOOLEAN /\ signal \in BOOLEAN
  /\ rep \in Seq(Report) /\ Made <= MaxReports
  /\ tried \in [Reports -> 0 .. RetryMax + 1]

(* There is room for a report where one is made, and what is sent has tries   *)
(* left; a report nobody has made yet was not sent, nor is one that is not    *)
(* encoded.                                                                   *)
Room ==
  /\ mpc = "select" => Made < MaxReports /\ ~last
  /\ mpc \in {"check", "header"} => Made < MaxReports /\ (~last => Made + 1 < MaxReports)
  /\ mpc \in {"encode", "send", "wait"} => Made >= 1 /\ (~last => Made < MaxReports)
  /\ mpc = "send" => tried[Made] <= RetryMax
  /\ mpc = "wait" => tried[Made] > 0
  /\ \A r \in Reports : r > Made => tried[r] = 0
  /\ mpc \in {"encode", "crashed"} => Made >= 1 /\ tried[Made] = 0

Making == MainType /\ Room

LEMMA Constants ==
  /\ RetryMax \in Nat /\ MaxReports \in Nat /\ MaxReports > 0
  /\ Reports \subseteq Nat \ {0} /\ 0 .. RetryMax + 1 \subseteq Nat
  /\ \A r \in Nat : r \in Reports <=> 1 <= r /\ r <= MaxReports
BY AgentAssumption DEF AgentAssumption, Reports

LEMMA MadeType == MainType => Made \in Nat /\ DOMAIN rep = 1 .. Made /\ \A r \in 1 .. Made : rep[r] \in Report
BY DEF MainType, Made

LEMMA InitMaking == Init => Making
<1> SUFFICES ASSUME Init PROVE Making
  OBVIOUS
<1>1. Made = 0 /\ rep \in Seq(Report)
  BY DEF Init, Made
<1>2. tried \in [Reports -> 0 .. RetryMax + 1] /\ \A r \in Reports : tried[r] = 0
  BY Constants DEF Init
<1>3. mpc = "select" /\ last = FALSE /\ signal = FALSE
  BY DEF Init
<1>4. MainType
  <2>1. mpc \in Over \union {"select", "check", "header", "encode", "send", "wait"}
    BY <1>3
  <2>2. Made <= MaxReports
    BY <1>1, Constants
  <2> QED
    BY <1>1, <1>2, <1>3, <2>1, <2>2 DEF MainType
<1>5. Room
  BY <1>1, <1>2, <1>3, Constants DEF Room
<1> QED
  BY <1>4, <1>5 DEF Making

LEMMA NextMaking == ASSUME Making, Polling, [Next]_vars PROVE Making'
<1>1. /\ MainType /\ Room /\ Made \in Nat
  BY MadeType DEF Making
<1>2. ASSUME UNCHANGED mainVars, signal' \in BOOLEAN PROVE Making'
  BY <1>1, <1>2 DEF mainVars, Making, MainType, Room, Made
<1>3. CASE ReportTick \/ Done
  <2>1. /\ mpc = "select" /\ mpc' = "check" /\ UNCHANGED <<rep, tried, signal>> /\ Made' = Made
    BY <1>3 DEF ReportTick, Done, Made
  <2>2. last' \in BOOLEAN /\ (~last' => Made + 1 < MaxReports)
    BY <1>1, <1>3 DEF ReportTick, Done, MainType
  <2> QED
    BY <1>1, <2>1, <2>2, Constants DEF Making, MainType, Room
<1>4. ASSUME Return, UNCHANGED <<last, rep, tried, signal>>, mpc \in {"check", "wait"} PROVE Making'
  <2>1. Made' = Made /\ mpc' = IF last THEN "ended" ELSE "select"
    BY <1>4 DEF Made, Return
  <2> QED
    BY <1>1, <1>4, <2>1, Constants DEF Making, MainType, Room, Over
<1>5. CASE Check
  <2>1. mpc = "check" /\ UNCHANGED <<last, rep, tried, signal>> /\ Made' = Made
    BY <1>5 DEF Check, Made
  <2>2. CASE mpc' = "header"
    BY <1>1, <2>1, <2>2, Constants DEF Making, MainType, Room
  <2> QED
    BY <1>4, <1>5, <2>1, <2>2 DEF Check
<1>6. CASE Header
  <2>1. /\ mpc = "header" /\ mpc' \in {"encode", "crashed"} /\ UNCHANGED <<last, tried, signal>>
        /\ rep' = Append(rep, [mem |-> array.mem, gops |-> array.gops, count |-> 0])
    BY <1>6 DEF Header
  <2>2. [mem |-> array.mem, gops |-> array.gops, count |-> 0] \in Report
    BY DEF Report, Polling, PollType
  <2>3. rep' \in Seq(Report) /\ Made' = Made + 1
    BY <1>1, <2>1, <2>2 DEF MainType, Made
  <2>4. Made + 1 \in Reports /\ tried[Made + 1] = 0
    BY <1>1, <2>1, Constants DEF Room
  <2> QED
    BY <1>1, <2>1, <2>3, <2>4, Constants DEF Making, MainType, Room, Over
<1>7. CASE Encode
  <2>1. /\ mpc = "encode" /\ mpc' \in {"send", "failed"} /\ UNCHANGED <<last, tried, signal>>
        /\ rep' = rep \/ rep' = [rep EXCEPT ![Made].count = pollCount]
    BY <1>7 DEF Encode, AfterEncrypt
  <2>2. rep' \in Seq(Report) /\ Made' = Made
    <3>1. rep \in Seq(Report) /\ Made \in 1 .. Len(rep) /\ pollCount \in Nat
      BY <1>1, <2>1 DEF MainType, Room, Made, Polling, PollType
    <3>2. rep[Made] \in Report
      BY <3>1
    <3>3. [rep[Made] EXCEPT !.count = pollCount] \in Report
      BY <3>1, <3>2 DEF Report
    <3>4. rep' = rep \/ rep' = [rep EXCEPT ![Made] = [rep[Made] EXCEPT !.count = pollCount]]
      BY <2>1
    <3>5. [rep EXCEPT ![Made] = [rep[Made] EXCEPT !.count = pollCount]] \in Seq(Report)
      BY <3>1, <3>3
    <3> QED
      BY <3>1, <3>4, <3>5 DEF Made
  <2> QED
    BY <1>1, <2>1, <2>2, Constants DEF Making, MainType, Room, Over
<1>8. CASE Send
  <2>1. /\ mpc = "send" /\ mpc' = "wait" /\ UNCHANGED <<last, rep, signal>> /\ Made' = Made
        /\ tried' = [tried EXCEPT ![Made] = @ + 1]
    BY <1>8 DEF Send, Made
  <2>2. Made \in Reports /\ tried[Made] \in Nat /\ tried[Made] + 1 \in 0 .. RetryMax + 1
    BY <1>1, <2>1, Constants DEF MainType, Room
  <2>3. tried' \in [Reports -> 0 .. RetryMax + 1] /\ tried'[Made] = tried[Made] + 1
        /\ \A r \in Reports : r # Made => tried'[r] = tried[r]
    BY <1>1, <2>1, <2>2 DEF MainType
  <2> QED
    BY <1>1, <2>1, <2>2, <2>3, Constants DEF Making, MainType, Room
<1>9. ASSUME Retry, mpc = "wait", UNCHANGED <<last, rep, tried, signal>> PROVE Making'
  <2>1. CASE tried[Made] <= RetryMax /\ mpc' = "send"
    <3>1. Made' = Made
      BY <1>9 DEF Made
    <3> QED
      BY <1>1, <1>9, <2>1, <3>1, Constants DEF Making, MainType, Room
  <2> QED
    BY <1>4, <1>9, <2>1 DEF Retry
<1>10. CASE Receive \/ Lose
  BY <1>4, <1>9, <1>10 DEF Receive, Lose
<1>11. Poll \/ Server \/ UNCHANGED vars => UNCHANGED <<mainVars, signal>>
  BY PollFrame, ServerFrame DEF vars
<1>12. CASE Signal
  BY <1>2, <1>12 DEF Signal
<1>13. signal \in BOOLEAN
  BY <1>1 DEF MainType
<1> QED
  BY <1>2, <1>3, <1>5, <1>6, <1>7, <1>8, <1>10, <1>11, <1>12, <1>13, Steps DEF Main, SendMetrics
-------------------------------------------------------------------------------
(* What the reports say.                                                      *)

Sound ==
  \A r \in 1 .. Made :
    /\ rep[r].mem = rep[r].gops /\ rep[r].mem <= array.mem
    /\ rep[r].count <= pollCount /\ (rep[r].mem = 0 => rep[r].count = 0)
    /\ Encoded(r) => rep[r].mem <= rep[r].count
    /\ \A q \in 1 .. r - 1 : /\ rep[q].mem <= rep[r].mem
                             /\ Encoded(r) => rep[q].count <= rep[r].count

(* Where the reports stay, they are as sound as they were: what they are      *)
(* measured against only grows.                                               *)
LEMMA SoundStays ==
  ASSUME Sound, Making, Polling, rep' = rep,
         array'.mem \in Nat, array.mem <= array'.mem,
         pollCount' \in Nat, pollCount <= pollCount',
         \A r \in 1 .. Made : Encoded(r)' => Encoded(r)
  PROVE  Sound'
<1>1. Made' = Made
  BY DEF Made
<1>2. Made \in Nat /\ \A r \in 1 .. Made : rep[r] \in Report
  BY MadeType DEF Making
<1>3. array.mem \in Nat /\ pollCount \in Nat
  BY DEF Polling, PollType
<1> QED
  BY <1>1, <1>2, <1>3 DEF Sound, Report

LEMMA NextSound == ASSUME Sound, Making, Polling, Polling', [Next]_vars PROVE Sound'
<1>1. Made \in Nat /\ DOMAIN rep = 1 .. Made /\ rep \in Seq(Report) /\ \A r \in 1 .. Made : rep[r] \in Report
  BY MadeType DEF Making, MainType
<1>2. array.mem \in Nat /\ array'.mem \in Nat /\ pollCount \in Nat /\ pollCount' \in Nat
  BY DEF Polling, PollType
<1>3. array.mem <= array'.mem /\ pollCount <= pollCount'
  BY NextPolling
<1>4. ASSUME rep' = rep, \A r \in 1 .. Made : Encoded(r)' => Encoded(r) PROVE Sound'
  BY <1>2, <1>3, <1>4, SoundStays
<1>5. ASSUME rep' = rep, mpc' \in {"encode", "crashed"} \/ mpc \notin {"encode", "crashed"} PROVE Sound'
  <2>1. \A r \in 1 .. Made : Encoded(r)' => Encoded(r)
    BY <1>5 DEF Encoded, Made
  <2> QED
    BY <1>4, <1>5, <2>1
<1>6. CASE Header
  <2>1. /\ mpc = "header" /\ mpc' \in {"encode", "crashed"} /\ UNCHANGED <<array, pollCount>>
        /\ rep' = Append(rep, [mem |-> array.mem, gops |-> array.gops, count |-> 0])
    BY <1>6 DEF Header, pollVars
  <2>2. /\ Made' = Made + 1
        /\ rep'[Made + 1] = [mem |-> array.mem, gops |-> array.gops, count |-> 0]
        /\ \A r \in 1 .. Made : rep'[r] = rep[r]
    BY <1>1, <2>1 DEF Made
  <2>3. \A r \in 1 .. Made : Encoded(r)
    BY <1>1, <2>1, <2>2 DEF Encoded
  <2>4. array.mem = array.gops
    BY DEF Polling, Pipe
  <2>5. ASSUME NEW r \in 1 .. Made + 1 PROVE
          /\ rep'[r].mem = rep'[r].gops /\ rep'[r].mem <= array.mem
          /\ rep'[r].count <= pollCount /\ (rep'[r].mem = 0 => rep'[r].count = 0)
          /\ Encoded(r)' => rep'[r].mem <= rep'[r].count
          /\ \A q \in 1 .. r - 1 : /\ rep'[q].mem <= rep'[r].mem
                                   /\ Encoded(r)' => rep'[q].count <= rep'[r].count
    <3>1. CASE r \in 1 .. Made
      BY <1>1, <2>2, <2>3, <3>1 DEF Sound
    <3>2. CASE r = Made + 1
      <4>1. rep'[r].mem = array.mem /\ rep'[r].gops = array.gops /\ rep'[r].count = 0
        BY <2>2, <3>2
      <4>2. \A q \in 1 .. r - 1 : q \in 1 .. Made /\ rep'[q].mem <= rep'[r].mem
        BY <1>1, <2>2, <3>2, <4>1 DEF Sound
      <4>3. ~Encoded(r)'
        BY <2>1, <2>2, <3>2 DEF Encoded
      <4> QED
        BY <1>2, <2>4, <4>1, <4>2, <4>3
    <3> QED
      BY <1>1, <3>1, <3>2
  <2> QED
    BY <2>1, <2>2, <2>5 DEF Sound
<1>7. CASE Encode
  <2>1. /\ mpc = "encode" /\ mpc' \in {"send", "failed"} /\ UNCHANGED <<array, pollCount>>
        /\ rep' = IF Garbage(Made) THEN rep ELSE [rep EXCEPT ![Made].count = pollCount]
    BY <1>7 DEF Encode, AfterEncrypt, pollVars
  <2>2. Made >= 1 /\ Made' = Made
    BY <1>1, <2>1 DEF Making, Room, Made
  <2>3. \A r \in 1 .. Made : Encoded(r)' /\ (r # Made => Encoded(r))
    BY <1>1, <2>1, <2>2 DEF Encoded, Made
  <2>4. \A r \in 1 .. Made : /\ rep'[r].mem = rep[r].mem /\ rep'[r].gops = rep[r].gops
                             /\ r # Made => rep'[r].count = rep[r].count
    BY <1>1, <2>1, <2>2 DEF Report
  <2>5. rep[Made].mem = 0 => rep'[Made].count = 0
    BY <1>1, <2>1, <2>2 DEF Garbage, Sound
  <2>6. rep[Made].mem # 0 => rep'[Made].count = pollCount
    BY <1>1, <2>1, <2>2 DEF Garbage, Report
  <2>7. array.mem <= pollCount
    BY DEF Polling, PollType, Pipe, Offered
  <2>8. ASSUME NEW r \in 1 .. Made PROVE
          /\ rep'[r].mem = rep'[r].gops /\ rep'[r].mem <= array.mem
          /\ rep'[r].count <= pollCount /\ (rep'[r].mem = 0 => rep'[r].count = 0)
          /\ rep'[r].mem <= rep'[r].count
          /\ \A q \in 1 .. r - 1 : rep'[q].mem <= rep'[r].mem /\ rep'[q].count <= rep'[r].count
    <3>1. CASE r # Made
      BY <1>1, <2>3, <2>4, <3>1 DEF Sound
    <3>2. CASE r = Made /\ rep[Made].mem # 0
      BY <1>1, <1>2, <2>2, <2>4, <2>6, <2>7, <3>2 DEF Sound, Report
    <3>3. CASE r = Made /\ rep[Made].mem = 0
      <4>1. \A q \in 1 .. r - 1 : rep[q].mem = 0 /\ rep[q].count = 0
        BY <1>1, <2>2, <3>3 DEF Sound, Report
      <4> QED
        BY <1>1, <1>2, <2>2, <2>4, <2>5, <3>3, <4>1 DEF Sound, Report
    <3> QED
      BY <3>1, <3>2, <3>3
  <2> QED
    BY <2>1, <2>2, <2>8 DEF Sound
<1>8. Signal \/ Server \/ Poll \/ UNCHANGED vars => UNCHANGED <<rep, mpc>>
  BY PollFrame, ServerFrame DEF Signal, vars, mainVars
<1>9. ASSUME ReportTick \/ Done \/ Check \/ Send \/ Receive \/ Lose PROVE rep' = rep /\ mpc \notin {"encode", "crashed"}
  BY <1>9 DEF ReportTick, Done, Check, Send, Receive, Lose
<1> QED
  BY <1>5, <1>6, <1>7, <1>8, <1>9, Steps DEF Main, SendMetrics

Reporting == Polling /\ Making /\ Sound

(* The inductive invariant of the reports.                                    *)
THEOREM ReportingInvariant == Spec => []Reporting
<1>1. Init => Reporting
  BY InitPolling, InitMaking DEF Reporting, Sound, Init, Made
<1>2. Reporting /\ [Next]_vars => Reporting'
  BY NextPolling, NextMaking, NextSound DEF Reporting
<1> QED
  BY <1>1, <1>2, PTL DEF Spec

(* What json.Marshal has read of the shared slice, without a lock, is of one  *)
(* poll and of both collectors; PollCount, read later, counts no fewer polls; *)
(* and reports do not go back.                                                *)
THEOREM ReportsSoundInvariant == Spec => []ReportsSound
<1>1. Reporting => ReportsSound
  <2> SUFFICES ASSUME Reporting, NEW r \in Reports, Encoded(r)
        PROVE /\ rep[r].mem = rep[r].gops /\ rep[r].mem <= rep[r].count
              /\ \A q \in 1 .. r - 1 : rep[q].mem <= rep[r].mem /\ rep[q].count <= rep[r].count
    BY DEF ReportsSound
  <2>1. r \in 1 .. Made
    BY MadeType DEF Encoded, Reporting, Making
  <2> QED
    BY <2>1 DEF Reporting, Sound
<1> QED
  BY <1>1, ReportingInvariant, PTL
-------------------------------------------------------------------------------
(* What the server does with the sendings.                                    *)

ServerType ==
  /\ effect \in [Sendings -> [Items -> 0 .. 1]]
  /\ answer \in [Sendings -> {"none", "ok", "refused", "error"}]
  /\ base \in [Sendings -> {<<>>} \union {<<n>> : n \in Nat}]
  /\ counter \in Nat /\ shown \in Nat /\ overlap \in BOOLEAN

(* Only what was sent takes effect, and nobody is told otherwise.             *)
Told ==
  \A s \in Sendings :
    /\ answer[s] = "ok" => effect[s][2] = 1
    /\ answer[s] = "refused" => ~Readable
    /\ effect[s][1] = 1 => s[2] <= tried[s[1]]
    /\ effect[s][2] = 1 => effect[s][1] = 1

Showing == shown = 0 \/ \E r \in 1 .. Made : shown = rep[r].mem

Serving == ServerType /\ Told /\ Showing

LEMMA SendingType ==
  \A s \in Sendings : /\ s[1] \in Reports /\ s[1] \in Nat /\ s[1] >= 1
                      /\ s[2] \in 1 .. RetryMax + 1 /\ s[2] \in Nat /\ s[2] >= 1
<1> SUFFICES ASSUME NEW s \in Reports \X (1 .. RetryMax + 1)
             PROVE  /\ s[1] \in Reports /\ s[1] \in Nat /\ s[1] >= 1
                    /\ s[2] \in 1 .. RetryMax + 1 /\ s[2] \in Nat /\ s[2] >= 1
  BY DEF Sendings
<1>1. s[1] \in Reports /\ s[2] \in 1 .. RetryMax + 1
  OBVIOUS
<1>2. s[1] \in Nat /\ s[1] >= 1
  BY <1>1, AgentAssumption DEF AgentAssumption, Reports
<1>3. s[2] \in Nat /\ s[2] >= 1
  BY <1>1, Constants
<1> QED
  BY <1>1, <1>2, <1>3

LEMMA SentIsMade ==
  ASSUME Making, NEW s \in Sendings, s[2] <= tried[s[1]]
  PROVE  s[1] \in 1 .. Made /\ tried[s[1]] # 0
<1>1. tried[s[1]] \in Nat /\ s[1] \in Reports
  BY SendingType, Constants DEF Making, MainType
<1>2. tried[s[1]] # 0 /\ Made \in Nat
  BY <1>1, SendingType, MadeType DEF Making
<1>3. ~(s[1] > Made)
  BY <1>1, <1>2 DEF Making, Room
<1> QED
  BY <1>2, <1>3, SendingType

LEMMA TakeTakesEffect ==
  ASSUME ServerType, NEW s \in Sendings, NEW k \in Items, Take(s, k)
  PROVE  /\ effect[s][k] = 0 /\ (k = 2 => effect[s][1] = 1)
         /\ effect' \in [Sendings -> [Items -> 0 .. 1]] /\ answer' = answer
         /\ effect'[s][k] = 1 /\ \A j \in Items : j # k => effect'[s][j] = effect[s][j]
         /\ \A t \in Sendings : t # s => effect'[t] = effect[t]
<1> DEFINE called == [t \in Sendings |-> Batch(t[1])]
<1>1. called[s].items = IF Garbage(s[1]) THEN {} ELSE Items
  BY DEF Batch
<1>2. /\ \E P \in SUBSET called[s].items :
           /\ Store!FirstPart(called[s].items, P)
           /\ \E i \in P : effect[s][i] = 0
           /\ effect' = [effect EXCEPT ![s] =
                           [j \in called[s].items |-> IF j \in P /\ effect[s][j] = 0 THEN 1 ELSE effect[s][j]]]
      /\ answer' = answer /\ effect' = [effect EXCEPT ![s][k] = 1]
  BY DEF Take, Store!TakeEffect
<1> HIDE DEF called
<1>3. PICK P \in SUBSET called[s].items :
        /\ Store!FirstPart(called[s].items, P)
        /\ \E i \in P : effect[s][i] = 0
        /\ effect' = [effect EXCEPT ![s] =
                        [j \in called[s].items |-> IF j \in P /\ effect[s][j] = 0 THEN 1 ELSE effect[s][j]]]
  BY <1>2
<1>4. called[s].items = Items
  BY <1>1, <1>3
<1>5. effect[s] \in [Items -> 0 .. 1] /\ effect \in [Sendings -> [Items -> 0 .. 1]]
  BY DEF ServerType
<1>6. \A j \in Items : effect'[s][j] = IF j \in P /\ effect[s][j] = 0 THEN 1 ELSE effect[s][j]
  BY <1>3, <1>4, <1>5
<1>7. /\ effect' \in [Sendings -> [Items -> 0 .. 1]]
      /\ effect'[s][k] = 1 /\ \A j \in Items : j # k => effect'[s][j] = effect[s][j]
      /\ \A t \in Sendings : t # s => effect'[t] = effect[t]
  BY <1>2, <1>5
<1>8. \A i \in P : i \in Items /\ (effect[s][i] = 0 => i = k)
  BY <1>4, <1>6, <1>7
<1>9. k \in P /\ effect[s][k] = 0
  BY <1>3, <1>8
<1>10. k = 2 => 1 \in P
  BY <1>3, <1>4, <1>9 DEF Store!FirstPart, Items
<1>11. k = 2 => effect[s][1] = 1
  BY <1>5, <1>8, <1>10 DEF Items
<1> QED
  BY <1>2, <1>7, <1>9, <1>11

(* A step at a sending leaves what has taken effect as it is; it is that of a *)
(* report that was made.                                                      *)
LEMMA WorkTakesEffect ==
  ASSUME ServerType, Told, Making, NEW s \in Sendings, Work(s)
  PROVE  /\ effect' \in [Sendings -> [Items -> 0 .. 1]] /\ answer' = answer
         /\ \A t \in Sendings : t # s => effect'[t] = effect[t]
         /\ effect'[s][1] = 1 /\ (effect[s][2] = 1 => effect'[s][2] = 1)
         /\ s[2] <= tried[s[1]]
<1>1. ServerType /\ 1 \in Items /\ 2 \in Items
  BY DEF Items
<1>2. CASE SetGauge(s)
  <2>1. Take(s, 1) /\ s[2] <= tried[s[1]]
    BY <1>2 DEF SetGauge, Arrived
  <2> QED
    BY <1>1, <2>1, TakeTakesEffect
<1>3. CASE ReadCount(s)
  <2>1. effect[s] = <<1, 0>> /\ UNCHANGED <<effect, answer>>
    BY <1>3 DEF ReadCount
  <2>2. effect[s][1] = 1 /\ effect[s][2] = 0
    BY <2>1
  <2> QED
    BY <1>1, <2>1, <2>2 DEF ServerType, Told
<1>4. CASE StoreCount(s)
  <2>1. Take(s, 2)
    BY <1>4 DEF StoreCount
  <2> QED
    BY <1>1, <2>1, TakeTakesEffect DEF Told
<1> QED
  BY <1>2, <1>3, <1>4 DEF Work

(* Reports and tries are only added to.                                       *)
LEMMA MainGrows ==
  ASSUME Making, [Next]_vars
  PROVE  /\ Made' \in Nat /\ Made <= Made' /\ \A r \in 1 .. Made : rep'[r].mem = rep[r].mem
         /\ \A r \in Reports : tried[r] <= tried'[r]
<1>1. /\ Made \in Nat /\ DOMAIN rep = 1 .. Made /\ rep \in Seq(Report) /\ \A r \in 1 .. Made : rep[r] \in Report
      /\ tried \in [Reports -> 0 .. RetryMax + 1] /\ \A r \in Reports : tried[r] \in Nat
  BY MadeType, Constants DEF Making, MainType
<1>2. CASE Header
  <2>1. rep' = Append(rep, [mem |-> array.mem, gops |-> array.gops, count |-> 0]) /\ tried' = tried
    BY <1>2 DEF Header
  <2> QED
    BY <1>1, <2>1 DEF Made
<1>3. CASE Encode
  <2>1. mpc = "encode" /\ tried' = tried /\ (rep' = rep \/ rep' = [rep EXCEPT ![Made].count = pollCount])
    BY <1>3 DEF Encode
  <2>2. Made' = Made
    BY <1>1, <2>1 DEF Made
  <2>3. \A r \in 1 .. Made : rep'[r].mem = rep[r].mem
    BY <1>1, <2>1 DEF Report
  <2> QED
    BY <1>1, <2>1, <2>2, <2>3
<1>4. CASE Send
  <2>1. rep' = rep /\ tried' = [tried EXCEPT ![Made] = @ + 1]
    BY <1>4 DEF Send
  <2> QED
    BY <1>1, <2>1 DEF Made
<1>5. Poll \/ Server \/ Signal \/ UNCHANGED vars => UNCHANGED <<rep, tried>>
  BY PollFrame, ServerFrame DEF Signal, vars, mainVars
<1>6. ReportTick \/ Done \/ Check \/ Receive \/ Lose => UNCHANGED <<rep, tried>>
  BY DEF ReportTick, Done, Check, Receive, Lose
<1>7. CASE UNCHANGED <<rep, tried>>
  BY <1>1, <1>7 DEF Made
<1> QED
  BY <1>2, <1>3, <1>4, <1>5, <1>6, <1>7, Steps DEF Main, SendMetrics

LEMMA CfgStays == ASSUME [Next]_vars PROVE cfg' = cfg /\ Readable' = Readable
<1>1. cfg' = cfg
  BY PollFrame, MainFrame, ServerFrame, Steps DEF Signal, vars
<1> QED
  BY <1>1 DEF Readable, HashVerified

LEMMA ServerStays ==
  ASSUME Serving, Making, Making', [Next]_vars, UNCHANGED serverVars PROVE Serving'
<1>1. Readable' = Readable /\ Made \in Nat /\ tried \in [Reports -> 0 .. RetryMax + 1]
  BY CfgStays, MadeType DEF Making, MainType
<1>2. Told'
  <2> SUFFICES ASSUME NEW s \in Sendings, effect[s][1] = 1 PROVE s[2] <= tried'[s[1]]
    BY <1>1 DEF Told, Serving, serverVars
  <2>1. s[1] \in Reports /\ s[2] \in Nat /\ tried[s[1]] \in Nat /\ tried'[s[1]] \in Nat
    BY <1>1, SendingType, Constants DEF Making, MainType
  <2> QED
    BY <2>1, MainGrows DEF Told, Serving
<1>3. Showing'
  BY <1>1, MainGrows DEF Showing, Serving, serverVars
<1> QED
  BY <1>2, <1>3 DEF Serving, ServerType, serverVars
LEMMA NextServing ==
  ASSUME Serving, Reporting, Making', [Next]_vars PROVE Serving'
<1>1. /\ ServerType /\ Told /\ Showing /\ Making
      /\ Made \in Nat /\ tried \in [Reports -> 0 .. RetryMax + 1]
      /\ DOMAIN rep = 1 .. Made /\ \A r \in 1 .. Made : rep[r] \in Report
  BY MadeType DEF Serving, Reporting, Making, MainType
<1>2. CASE UNCHANGED serverVars
  BY <1>1, <1>2, ServerStays
<1>3. ASSUME NEW s \in Sendings, Work(s) PROVE Serving'
  <2>1. /\ UNCHANGED <<cfg, rep, tried>> /\ Made' = Made /\ Readable' = Readable
    BY <1>3, ServerFrame DEF Server, mainVars, Made, Readable, HashVerified
  <2>2. /\ effect' \in [Sendings -> [Items -> 0 .. 1]] /\ answer' = answer
        /\ \A t \in Sendings : t # s => effect'[t] = effect[t]
        /\ effect'[s][1] = 1 /\ (effect[s][2] = 1 => effect'[s][2] = 1)
        /\ s[2] <= tried[s[1]]
    BY <1>1, <1>3, WorkTakesEffect
  <2>3. s[1] \in 1 .. Made
    BY <1>1, <2>2, SentIsMade
  <2>4. shown' = shown \/ shown' = rep[s[1]].mem
    BY <1>3 DEF Work, SetGauge, ReadCount, StoreCount
  <2>5. Told'
    <3> SUFFICES ASSUME NEW t \in Sendings
                 PROVE  /\ answer[t] = "ok" => effect'[t][2] = 1
                        /\ answer[t] = "refused" => ~Readable
                        /\ effect'[t][1] = 1 => t[2] <= tried[t[1]]
                        /\ effect'[t][2] = 1 => effect'[t][1] = 1
      BY <2>1, <2>2 DEF Told
    <3> QED
      BY <1>1, <2>2 DEF Told
  <2>6. Showing'
    BY <1>1, <2>1, <2>3, <2>4 DEF Showing
  <2>7. counter' \in Nat /\ base' \in [Sendings -> {<<>>} \union {<<n>> : n \in Nat}] /\ overlap' \in BOOLEAN
    <3>1. CASE SetGauge(s)
      BY <1>1, <3>1 DEF SetGauge, ServerType
    <3>2. CASE ReadCount(s)
      BY <1>1, <3>2 DEF ReadCount, ServerType
    <3>3. CASE StoreCount(s)
      <4>1. base[s] # <<>> /\ counter' = base[s][1] + rep[s[1]].count /\ base' = [base EXCEPT ![s] = <<>>]
            /\ overlap' = (overlap \/ \E t \in Sendings \ {s} : base[t] # <<>>)
        BY <3>3 DEF StoreCount
      <4>2. base[s] \in {<<n>> : n \in Nat}
        BY <1>1, <4>1 DEF ServerType
      <4>3. base[s][1] \in Nat
        BY <4>2
      <4>4. rep[s[1]].count \in Nat
        BY <1>1, <2>3 DEF Report
      <4>5. counter' \in Nat
        BY <4>1, <4>3, <4>4
      <4> QED
        BY <1>1, <4>1, <4>5 DEF ServerType
    <3> QED
      BY <1>3, <3>1, <3>2, <3>3 DEF Work
  <2>8. shown' \in Nat
    BY <1>1, <2>3, <2>4 DEF ServerType, Report
  <2> QED
    BY <1>1, <2>2, <2>5, <2>6, <2>7, <2>8 DEF Serving, ServerType
<1>4. CASE Answer
  <2> DEFINE called == [t \in Sendings |-> Batch(t[1])]
  <2> DEFINE what == IF ~Readable THEN "refused" ELSE IF Garbage(Made) THEN "error" ELSE "ok"
  <2>1. Store!Tell(Sending, what)
    BY <1>4 DEF Answer
  <2>2. /\ mpc = "wait" /\ UNCHANGED <<cfg, rep, tried, base, counter, shown, overlap>>
        /\ Made' = Made /\ Readable' = Readable
    BY <1>4 DEF Answer, mainVars, Made, Readable, HashVerified
  <2>3. Sending \in Sendings
    <3>1. Made \in Reports /\ tried[Made] > 0
      BY <1>1, <2>2, Constants DEF Making, MainType, Room
    <3>2. tried[Made] \in 0 .. RetryMax + 1 /\ tried[Made] \in 1 .. RetryMax + 1
      BY <1>1, <3>1, Constants
    <3> QED
      BY <3>1, <3>2 DEF Sending, Sendings
  <2>4. /\ what = "ok" => called[Sending].complete /\ \A k \in called[Sending].items : effect[Sending][k] > 0
        /\ answer' = [answer EXCEPT ![Sending] = what] /\ effect' = effect
    BY <2>1 DEF Store!Tell
  <2>5. what = "ok" => effect[Sending][2] = 1
    <3>1. called[Sending].complete = ~Garbage(Sending[1])
          /\ called[Sending].items = IF Garbage(Sending[1]) THEN {} ELSE Items
      BY <2>3 DEF Batch
    <3>2. effect[Sending][2] \in 0 .. 1
      BY <1>1, <2>3 DEF ServerType, Items
    <3>3. ASSUME what = "ok" PROVE effect[Sending][2] = 1
      <4>1. ~Garbage(Sending[1])
        BY <2>4, <3>1, <3>3
      <4>2. 2 \in called[Sending].items
        BY <3>1, <4>1 DEF Items
      <4> HIDE DEF called, what
      <4>3. effect[Sending][2] > 0
        BY <2>4, <3>3, <4>2
      <4> QED
        BY <3>2, <4>3
    <3> QED
      BY <3>3
  <2>6. (what = "refused" => ~Readable) /\ what \in {"ok", "refused", "error"}
    OBVIOUS
  <2> HIDE DEF what
  <2>7. Told'
    <3> SUFFICES ASSUME NEW t \in Sendings
                 PROVE  /\ answer'[t] = "ok" => effect[t][2] = 1
                        /\ answer'[t] = "refused" => ~Readable
                        /\ effect[t][1] = 1 => t[2] <= tried[t[1]]
                        /\ effect[t][2] = 1 => effect[t][1] = 1
      BY <2>2, <2>4 DEF Told
    <3> QED
      BY <1>1, <2>3, <2>4, <2>5, <2>6 DEF Told, ServerType
  <2>8. answer' \in [Sendings -> {"none", "ok", "refused", "error"}]
    BY <1>1, <2>3, <2>4, <2>6 DEF ServerType
  <2>9. Showing'
    BY <1>1, <2>2 DEF Showing
  <2> QED
    BY <1>1, <2>2, <2>4, <2>7, <2>8, <2>9 DEF Serving, ServerType
<1>5. Poll \/ Signal \/ Main \/ UNCHANGED vars => UNCHANGED serverVars
  BY PollFrame, MainFrame DEF Signal, vars
<1> QED
  BY <1>2, <1>3, <1>4, <1>5, Steps DEF Server

LEMMA InitServing == Init => Serving
<1> SUFFICES ASSUME Init PROVE Serving
  OBVIOUS
<1>1. \A s \in Sendings : effect[s] = [k \in Items |-> 0] /\ answer[s] = "none"
  BY DEF Init
<1>2. \A s \in Sendings : effect[s][1] = 0 /\ effect[s][2] = 0
  BY <1>1 DEF Items
<1>3. ServerType
  <2>1. effect \in [Sendings -> [Items -> 0 .. 1]]
    BY DEF Init
  <2>2. answer \in [Sendings -> {"none", "ok", "refused", "error"}]
    BY DEF Init
  <2>3. base \in [Sendings -> {<<>>} \union {<<n>> : n \in Nat}]
    BY DEF Init
  <2>4. counter \in Nat /\ shown \in Nat /\ overlap \in BOOLEAN
    BY DEF Init
  <2> QED
    BY <2>1, <2>2, <2>3, <2>4 DEF ServerType
<1>4. Told
  BY <1>1, <1>2 DEF Told
<1>5. Showing
  BY DEF Init, Showing
<1> QED
  BY <1>3, <1>4, <1>5 DEF Serving
-------------------------------------------------------------------------------
(* A report the agent is done with.                                           *)

Excused(r) ==
  \/ \E s \in Sendings : s[1] = r /\ effect[s][2] = 1
  \/ tried[r] = RetryMax + 1
  \/ ~Readable
  \/ Garbage(r)

Delivered == \A r \in 1 .. Made : DoneWith(r) => Excused(r)

(* What has taken effect has.                                                 *)
LEMMA EffectStays ==
  ASSUME Serving, Making, [Next]_vars
  PROVE  \A s \in Sendings : effect[s][2] = 1 => effect'[s][2] = 1
<1>1. ServerType /\ Told
  BY DEF Serving
<1>2. ASSUME NEW t \in Sendings, Work(t) PROVE \A s \in Sendings : effect[s][2] = 1 => effect'[s][2] = 1
  <2>1. /\ \A s \in Sendings : s # t => effect'[s] = effect[s]
        /\ effect[t][2] = 1 => effect'[t][2] = 1
    BY <1>1, <1>2, WorkTakesEffect
  <2> QED
    BY <2>1
<1>3. Poll \/ Signal \/ Main \/ Answer \/ UNCHANGED vars => effect' = effect
  BY PollFrame, MainFrame DEF Signal, vars, serverVars, Answer, Store!Tell
<1> QED
  BY <1>2, <1>3, Steps DEF Server

LEMMA ExcusedStays ==
  ASSUME Serving, Making, Making', [Next]_vars, NEW r \in 1 .. Made, Excused(r)
  PROVE  Excused(r)'
<1>1. /\ Made \in Nat /\ Made' \in Nat /\ Made <= Made' /\ Made <= MaxReports
      /\ DOMAIN rep = 1 .. Made /\ DOMAIN rep' = 1 .. Made'
      /\ tried \in [Reports -> 0 .. RetryMax + 1] /\ tried' \in [Reports -> 0 .. RetryMax + 1]
  BY MainGrows, MadeType DEF Making, MainType, Made
<1>2. r \in Reports /\ r \in 1 .. Made'
  BY <1>1, Constants
<1>3. CASE \E s \in Sendings : s[1] = r /\ effect[s][2] = 1
  BY <1>3, EffectStays DEF Excused
<1>4. CASE tried[r] = RetryMax + 1
  <2>1. tried[r] <= tried'[r] /\ tried'[r] \in 0 .. RetryMax + 1
    BY <1>1, <1>2, MainGrows
  <2>2. tried'[r] = RetryMax + 1
    BY <1>4, <2>1, Constants
  <2> QED
    BY <2>2 DEF Excused
<1>5. CASE ~Readable
  BY <1>5, CfgStays DEF Excused
<1>6. CASE Garbage(r)
  BY <1>1, <1>2, <1>6, MainGrows DEF Excused, Garbage
<1> QED
  BY <1>3, <1>4, <1>5, <1>6 DEF Excused

LEMMA NextDelivered ==
  ASSUME Delivered, Serving, Making, Making', [Next]_vars PROVE Delivered'
<1>1. /\ Made \in Nat /\ DOMAIN rep = 1 .. Made /\ rep \in Seq(Report)
      /\ Room /\ ServerType /\ Told
      /\ tried \in [Reports -> 0 .. RetryMax + 1]
  BY MadeType DEF Making, MainType, Serving
<1>2. ASSUME NEW r \in 1 .. Made', DoneWith(r)', r \in 1 .. Made /\ DoneWith(r) PROVE Excused(r)'
  BY <1>2, ExcusedStays DEF Delivered
<1>3. ASSUME NEW r \in 1 .. Made', DoneWith(r)', Receive \/ Lose PROVE Excused(r)'
  <2>1. mpc = "wait" /\ UNCHANGED <<rep, last, tried>> /\ Made' = Made
    BY <1>3 DEF Receive, Lose, Made
  <2>2. CASE r < Made
    BY <1>1, <1>2, <1>3, <2>1, <2>2 DEF DoneWith
  <2>3. CASE r = Made
    <3>1. mpc' # "send"
      BY <1>1, <1>3, <2>1, <2>3 DEF DoneWith
    <3>2. Made \in Reports /\ Sending \in Sendings /\ Sending[1] = Made
          /\ tried[Made] \in 0 .. RetryMax + 1
      <4>1. Made \in Reports /\ tried[Made] > 0
        BY <1>1, <2>1, Constants DEF Making, MainType, Room
      <4>2. tried[Made] \in 0 .. RetryMax + 1 /\ tried[Made] \in 1 .. RetryMax + 1
        BY <1>1, <4>1, Constants
      <4> QED
        BY <4>1, <4>2 DEF Sending, Sendings
    <3>3. ASSUME Retry PROVE Excused(Made)
      <4>1. ~(tried[Made] <= RetryMax)
        BY <3>1, <3>3 DEF Retry
      <4> QED
        BY <3>2, <4>1, Constants DEF Excused
    <3>4. ASSUME answer[Sending] \in {"ok", "refused"} PROVE Excused(Made)
      BY <1>1, <3>2, <3>4 DEF Told, Excused
    <3>5. answer[Sending] \in {"none", "ok", "refused", "error"}
      BY <1>1, <3>2 DEF ServerType
    <3>6. Excused(Made)
      BY <1>3, <3>3, <3>4, <3>5 DEF Receive, Lose
    <3>7. Made \in 1 .. Made
      BY <2>1, <2>3, <1>1
    <3> QED
      BY <2>3, <3>6, <3>7, ExcusedStays
  <2> QED
    BY <1>1, <2>1, <2>2, <2>3
<1>4. ASSUME NEW r \in 1 .. Made', DoneWith(r)', ~(Receive \/ Lose) PROVE r \in 1 .. Made /\ DoneWith(r)
  <2>1. CASE Header
    <3>1. mpc = "header" /\ mpc' \in {"encode", "crashed"} /\ Made' = Made + 1
      BY <1>1, <2>1 DEF Header, Made
    <3> QED
      BY <1>1, <1>4, <3>1 DEF DoneWith
  <2>2. CASE Encode
    <3>1. Made' = Made /\ mpc' \in {"send", "failed"}
      BY <1>1, <2>2 DEF Encode, AfterEncrypt, Made
    <3> QED
      BY <1>1, <1>4, <3>1 DEF DoneWith
  <2>3. CASE ReportTick \/ Done \/ Check \/ Send
    <3>1. /\ Made' = Made
          /\ mpc \in {"select", "check"} \/ mpc' = "wait"
      BY <2>3 DEF ReportTick, Done, Check, Send, Made
    <3> QED
      BY <1>1, <1>4, <3>1 DEF DoneWith
  <2>4. CASE Poll \/ Server \/ Signal \/ UNCHANGED vars
    <3>1. Made' = Made /\ mpc' = mpc
      BY <2>4, PollFrame, ServerFrame DEF Signal, vars, mainVars, Made
    <3> QED
      BY <1>1, <1>4, <3>1 DEF DoneWith
  <2> QED
    BY <1>4, <2>1, <2>2, <2>3, <2>4, Steps DEF Main, SendMetrics
<1> QED
  BY <1>2, <1>3, <1>4 DEF Delivered

Delivering == Reporting /\ Serving /\ Delivered

(* The inductive invariant of the sendings: what the server did with them, and*)
(* what became of the reports.                                                *)
THEOREM DeliveringInvariant == Spec => []Delivering
<1>1. Init => Delivering
  <2> SUFFICES ASSUME Init PROVE Delivering
    OBVIOUS
  <2>1. Made = 0 /\ Reporting
    BY InitPolling, InitMaking DEF Init, Made, Reporting, Sound
  <2> QED
    BY <2>1, InitServing DEF Delivering, Delivered
<1>2. Delivering /\ [Next]_vars => Delivering'
  <2> SUFFICES ASSUME Delivering, [Next]_vars PROVE Delivering'
    OBVIOUS
  <2>1. Reporting'
    BY NextPolling, NextMaking, NextSound DEF Reporting, Delivering
  <2>2. Serving'
    BY <2>1, NextServing DEF Reporting, Delivering
  <2>3. Delivered'
    BY <2>1, NextDelivered DEF Reporting, Delivering
  <2> QED
    BY <2>1, <2>2, <2>3 DEF Delivering
<1> QED
  BY <1>1, <1>2, PTL DEF Spec

(* SendMetrics is done with a report only when it has taken effect or after   *)
(* every try of the client, unless the server cannot read what is sent.       *)
THEOREM SentUnlessAllTriedInvariant == Spec => []SentUnlessAllTried
<1>1. Delivering => SentUnlessAllTried
  <2> SUFFICES ASSUME Delivering, NEW r \in Reports, DoneWith(r)
               PROVE  \/ \E s \in Sendings : s[1] = r /\ \A k \in Items : effect[s][k] = 1
                      \/ tried[r] = RetryMax + 1 \/ ~Readable \/ Garbage(r)
    BY DEF SentUnlessAllTried
  <2>1. r \in 1 .. Made /\ Told
    BY MadeType, Constants DEF DoneWith, Delivering, Reporting, Making, Serving
  <2>2. Excused(r)
    BY <2>1 DEF Delivering, Delivered
  <2> QED
    BY <2>1, <2>2 DEF Excused, Told, Items
<1> QED
  BY <1>1, DeliveringInvariant, PTL

(* The server's gauges go back to an older poll only by a sending that        *)
(* arrives after the client has given it up.                                  *)
THEOREM NoStepBackHolds == Spec => NoStepBack
<1>1. ASSUME Delivering, [Next]_vars, shown' < shown
      PROVE  \E s \in Sendings : effect[s] # effect'[s] /\ ~(mpc = "wait" /\ s = Sending)
  <2>1. Poll \/ Signal \/ Main \/ Answer \/ UNCHANGED vars => shown' = shown
    BY PollFrame, MainFrame DEF Signal, vars, serverVars, Answer
  <2>2. ServerType /\ Showing /\ Making /\ Sound /\ shown \in Nat
    <3>1. ServerType /\ Showing /\ Making /\ Sound
      BY <1>1 DEF Delivering, Serving, Reporting
    <3> QED
      BY <3>1 DEF ServerType
  <2>3. PICK s \in Sendings : Work(s)
    BY <1>1, <2>1, <2>2, Steps DEF Server
  <2>0. SetGauge(s)
    BY <1>1, <2>2, <2>3 DEF Work, ReadCount, StoreCount
  <2>4. effect[s] # effect'[s]
    <3>1. effect[s][1] = 0 /\ effect'[s][1] = 1
      BY <2>0, <2>2, TakeTakesEffect DEF SetGauge, Items
    <3> QED
      BY <3>1
  <2>5. ASSUME mpc = "wait", s = Sending PROVE FALSE
    <3>1. shown' = rep[Made].mem
      BY <2>0, <2>5 DEF SetGauge, Sending
    <3>2. Made \in Nat /\ \A r \in 1 .. Made : rep[r].mem \in Nat
      BY <2>2, MadeType DEF Making, Report
    <3>3. Made >= 1
      BY <2>2, <2>5 DEF Making, Room
    <3>4. \A r \in 1 .. Made : rep[r].mem <= rep[Made].mem
      BY <2>2, <3>2, <3>3 DEF Sound
    <3>5. shown <= rep[Made].mem
      BY <2>2, <3>2, <3>3, <3>4 DEF Showing
    <3> QED
      BY <1>1, <2>2, <3>1, <3>2, <3>3, <3>5
  <2> QED
    BY <2>4, <2>5
<1> QED
  BY <1>1, DeliveringInvariant, PTL DEF Spec, NoStepBack
-------------------------------------------------------------------------------
(* The report after the signal.                                               *)

Flushed ==
  /\ atSignal \in Nat /\ atSignal <= array.mem
  /\ last => signal
  /\ mpc = "ended" => last
  /\ last /\ mpc \in {"encode", "send", "wait"} => rep[Made].mem >= atSignal
  /\ mpc = "ended" /\ atSignal > 0 => \E r \in 1 .. Made : rep[r].mem >= atSignal /\ tried[r] > 0

LEMMA NextFlushed ==
  ASSUME Flushed, Polling, Making, Making', Polling', [Next]_vars PROVE Flushed'
<1>1. /\ Made \in Nat /\ DOMAIN rep = 1 .. Made /\ rep \in Seq(Report) /\ \A r \in 1 .. Made : rep[r] \in Report
      /\ Room /\ MainType /\ tried \in [Reports -> 0 .. RetryMax + 1]
  BY MadeType DEF Making, MainType
<1>2. array.mem \in Nat /\ array'.mem \in Nat /\ array.mem <= array'.mem
  BY NextPolling DEF Polling, PollType
<1>3. ASSUME UNCHANGED <<mainVars, atSignal>>, signal => signal' PROVE Flushed'
  BY <1>2, <1>3 DEF Flushed, mainVars, Made
<1>4. CASE Signal
  <2>1. ~signal /\ signal' = TRUE /\ atSignal' = array.mem /\ UNCHANGED <<pollVars, mainVars>>
    BY <1>4 DEF Signal
  <2>2. ~last /\ mpc # "ended"
    BY <2>1 DEF Flushed
  <2> QED
    BY <1>2, <2>1, <2>2 DEF Flushed, mainVars, pollVars
<1>5. CASE ReportTick \/ Done
  BY <1>5 DEF ReportTick, Done, Flushed, pollVars
<1>6. ASSUME Return, UNCHANGED <<last, rep, tried, signal, atSignal, array>>,
             last /\ atSignal > 0 => \E r \in 1 .. Made : rep[r].mem >= atSignal /\ tried[r] > 0
      PROVE Flushed'
  <2>1. mpc' = (IF last THEN "ended" ELSE "select") /\ Made' = Made
    BY <1>6 DEF Return, Made
  <2> QED
    BY <1>6, <2>1 DEF Flushed
<1>7. CASE Check
  <2>1. /\ mpc = "check" /\ UNCHANGED <<last, rep, tried, signal, atSignal, array, len>>
        /\ IF len THEN mpc' = "header" ELSE Return
    BY <1>7 DEF Check, pollVars
  <2>2. CASE len
    BY <2>1, <2>2 DEF Flushed
  <2>3. CASE ~len
    <3>1. ~(atSignal > 0)
      BY <1>2, <2>3 DEF Flushed, Polling, Pipe
    <3> QED
      BY <1>6, <2>1, <2>3, <3>1
  <2> QED
    BY <2>2, <2>3
<1>8. CASE Header
  <2>1. /\ mpc = "header" /\ mpc' \in {"encode", "crashed"} /\ UNCHANGED <<last, tried, signal, atSignal, array>>
        /\ rep' = Append(rep, [mem |-> array.mem, gops |-> array.gops, count |-> 0])
    BY <1>8 DEF Header, pollVars
  <2>2. Made' = Made + 1 /\ rep'[Made + 1].mem = array.mem
    BY <1>1, <2>1 DEF Made
  <2> QED
    BY <1>2, <2>1, <2>2 DEF Flushed
<1>9. CASE Encode
  <2>1. /\ mpc = "encode" /\ mpc' \in {"send", "failed"} /\ UNCHANGED <<last, tried, signal, atSignal, array>>
        /\ Made' = Made /\ Made >= 1
    BY <1>1, <1>9 DEF Encode, AfterEncrypt, pollVars, Made, Room
  <2>2. \A r \in 1 .. Made : rep'[r].mem = rep[r].mem
    BY MainGrows
  <2> QED
    BY <1>1, <2>1, <2>2 DEF Flushed
<1>10. CASE Send
  <2>1. mpc = "send" /\ mpc' = "wait" /\ UNCHANGED <<last, rep, signal, atSignal, array>> /\ Made' = Made
    BY <1>10 DEF Send, pollVars, Made
  <2> QED
    BY <2>1 DEF Flushed
<1>11. CASE Receive \/ Lose
  <2>1. /\ mpc = "wait" /\ UNCHANGED <<last, rep, tried, signal, atSignal, array>> /\ Made' = Made
        /\ mpc' = "send" \/ Return
    BY <1>11 DEF Receive, Lose, Retry, pollVars, Made
  <2>2. CASE mpc' = "send"
    BY <2>1, <2>2 DEF Flushed
  <2>3. last => rep[Made].mem >= atSignal
    BY <2>1 DEF Flushed
  <2>4. Made \in 1 .. Made /\ tried[Made] > 0
    BY <1>1, <2>1 DEF Room
  <2> QED
    BY <1>6, <2>1, <2>2, <2>3, <2>4
<1>12. Poll \/ Server \/ UNCHANGED vars => UNCHANGED <<mainVars, atSignal, signal>>
  BY PollFrame, ServerFrame DEF vars
<1> QED
  BY <1>3, <1>4, <1>5, <1>7, <1>8, <1>9, <1>10, <1>11, <1>12, Steps DEF Main, SendMetrics

(* The inductive invariant of the end of the agent.                           *)
THEOREM FlushedInvariant == Spec => [](Delivering /\ Flushed)
<1>1. Init => Flushed
  BY DEF Init, Flushed, Empty
<1>2. Delivering /\ Flushed /\ [Next]_vars => Flushed'
  BY NextPolling, NextMaking, NextFlushed DEF Delivering, Reporting
<1> QED
  BY <1>1, <1>2, DeliveringInvariant, PTL DEF Spec

(* An agent that ends without an error after a signal has sent, or tried to,  *)
(* a report no older than the poll that was stored when the signal came.      *)
THEOREM SignalFlushesInvariant == Spec => []SignalFlushes
<1>1. Delivering /\ Flushed => SignalFlushes
  BY MadeType DEF Delivering, Reporting, Making, Flushed, SignalFlushes
<1> QED
  BY <1>1, FlushedInvariant, PTL

(* Every variable of the agent has its type; so no more is sent, and no       *)
(* oftener, than the client's tries allow.                                    *)
THEOREM TypeInvariant == Spec => []TypeOK
<1>1. Delivering /\ Flushed /\ cfg \in Configs => TypeOK
  <2> SUFFICES ASSUME Delivering, Flushed, cfg \in Configs PROVE TypeOK
    OBVIOUS
  <2>1. PollType /\ MainType /\ ServerType /\ atSignal \in Nat
    BY DEF Delivering, Reporting, Serving, Polling, Making, Flushed
  <2>2. memIn \in Seq(Nat) /\ Len(memIn) <= 1
    <3>1. <<>> \in Seq(Nat) /\ Len(<<>>) = 0 /\ \A n \in Nat : <<n>> \in Seq(Nat) /\ Len(<<n>>) = 1
      OBVIOUS
    <3>2. memIn = <<>> \/ \E n \in Nat : memIn = <<n>>
      BY <2>1 DEF PollType
    <3>3. CASE memIn = <<>>
      BY <3>1, <3>3
    <3>4. ASSUME NEW n \in Nat, memIn = <<n>> PROVE memIn \in Seq(Nat) /\ Len(memIn) <= 1
      BY <3>1, <3>4
    <3> QED
      BY <3>2, <3>3, <3>4
  <2>3. base \in [Sendings -> Seq(Nat)] /\ \A s \in Sendings : Len(base[s]) <= 1
    <3>0. <<>> \in Seq(Nat) /\ Len(<<>>) = 0 /\ \A n \in Nat : <<n>> \in Seq(Nat) /\ Len(<<n>>) = 1
      OBVIOUS
    <3>1. ASSUME NEW b \in {<<>>} \union {<<n>> : n \in Nat} PROVE b \in Seq(Nat) /\ Len(b) <= 1
      <4>1. b = <<>> \/ \E n \in Nat : b = <<n>>
        OBVIOUS
      <4>2. CASE b = <<>>
        BY <3>0, <4>2
      <4>3. ASSUME NEW n \in Nat, b = <<n>> PROVE b \in Seq(Nat) /\ Len(b) <= 1
        BY <3>0, <4>3
      <4> QED
        BY <4>1, <4>2, <4>3
    <3>2. base \in [Sendings -> {<<>>} \union {<<n>> : n \in Nat}]
      BY <2>1 DEF ServerType
    <3> QED
      BY <3>1, <3>2
  <2> QED
    BY <2>1, <2>2, <2>3 DEF PollType, MainType, ServerType, TypeOK, Made
<1>2. Init => cfg \in Configs
  BY DEF Init
<1>3. cfg \in Configs /\ [Next]_vars => (cfg \in Configs)'
  BY CfgStays
<1> QED
  BY <1>1, <1>2, <1>3, FlushedInvariant, PTL DEF Spec

-------------------------------------------------------------------------------
(* PollCount at the server.                                                   *)

(* The counts that were added explain what is there, and what is held of it;  *)
(* while no two held it at once, what is held is what is there.               *)
Counted == Cardinality(Applied) * pollCount

Bounded ==
  /\ counter <= Counted
  /\ ~overlap => \A s \in Applied : rep[s[1]].mem <= counter

Held ==
  \A s \in Sendings : base[s] # <<>> =>
    base[s][1] <= Counted /\ (~overlap => base[s][1] = counter)

LEMMA AppliedFinite == IsFiniteSet(Applied) /\ Cardinality(Applied) \in Nat
<1>1. IsFiniteSet(Reports) /\ IsFiniteSet(1 .. RetryMax + 1)
  BY Constants, FS_Interval DEF Reports
<1>2. IsFiniteSet(Sendings)
  BY <1>1, FS_Product DEF Sendings
<1>3. Applied \in SUBSET Sendings
  BY DEF Applied
<1> QED
  BY <1>2, <1>3, FS_Subset, FS_CardinalityType

LEMMA TimesGrows == \A n, a, b \in Nat : a <= b => n * a <= n * b
OBVIOUS

LEMMA TimesOneMore == \A n, a \in Nat : (n + 1) * a = n * a + a
OBVIOUS

LEMMA HeldType == ASSUME ServerType, NEW s \in Sendings, base[s] # <<>> PROVE base[s][1] \in Nat
<1>1. base[s] \in {<<n>> : n \in Nat}
  BY DEF ServerType
<1> QED
  BY <1>1

LEMMA NextBounded ==
  ASSUME Bounded, Held, Reporting, Serving, Making', Polling', [Next]_vars PROVE Bounded' /\ Held'
<1>1. /\ ServerType /\ Told /\ Making /\ Sound /\ 1 \in Items /\ 2 \in Items
      /\ Made \in Nat /\ DOMAIN rep = 1 .. Made /\ \A r \in 1 .. Made : rep[r] \in Report
  BY MadeType DEF Reporting, Serving, Making, Items
<1>2. pollCount \in Nat /\ pollCount' \in Nat /\ pollCount <= pollCount' /\ counter \in Nat
  BY <1>1, NextPolling DEF Reporting, Polling, PollType, ServerType
<1>3. ASSUME NEW s \in Sendings, effect[s][1] = 1
      PROVE  /\ s[1] \in 1 .. Made /\ rep'[s[1]].mem = rep[s[1]].mem
             /\ rep[s[1]].mem \in Nat /\ rep[s[1]].count \in Nat
             /\ rep[s[1]].mem <= rep[s[1]].count /\ rep[s[1]].count <= pollCount
  <2>1. s[1] \in 1 .. Made /\ tried[s[1]] # 0
    BY <1>1, <1>3, SentIsMade DEF Told
  <2>2. Encoded(s[1])
    <3>1. s[1] = Made => mpc \notin {"encode", "crashed"}
      BY <1>1, <2>1 DEF Making, Room
    <3> QED
      BY <1>1, <2>1, <3>1 DEF Encoded
  <2> QED
    BY <1>1, <2>1, <2>2, MainGrows DEF Sound, Report
<1>4. \A s \in Applied : s \in Sendings /\ effect[s][1] = 1
  BY <1>1 DEF Applied, Told
<1>5. \A s \in Sendings : base[s] # <<>> => base[s][1] \in Nat
  BY <1>1, HeldType
<1>6. Cardinality(Applied) \in Nat /\ Counted \in Nat
  BY <1>2, AppliedFinite DEF Counted
<1>7. ASSUME Applied' = Applied, UNCHANGED <<counter, overlap>>,
             \A s \in Sendings : base'[s] = base[s] \/ base'[s] = <<counter>>
      PROVE  Bounded' /\ Held'
  <2>1. Counted <= Counted' /\ Counted' \in Nat
    <3>1. Counted' = Cardinality(Applied) * pollCount'
      BY <1>7 DEF Counted
    <3>2. Cardinality(Applied) * pollCount <= Cardinality(Applied) * pollCount'
      BY <1>2, <1>6, TimesGrows
    <3>3. Cardinality(Applied) * pollCount' \in Nat
      BY <1>2, <1>6
    <3> QED
      BY <3>1, <3>2, <3>3 DEF Counted
  <2>2. Bounded'
    BY <1>2, <1>3, <1>4, <1>6, <1>7, <2>1 DEF Bounded
  <2>3. ASSUME NEW s \in Sendings, base'[s] # <<>>
        PROVE  base'[s][1] <= Counted' /\ (~overlap' => base'[s][1] = counter')
    <3>1. CASE base'[s] = base[s]
      BY <1>5, <1>6, <1>7, <2>1, <2>3, <3>1 DEF Held
    <3>2. CASE base'[s] = <<counter>>
      BY <1>2, <1>6, <1>7, <2>1, <3>2 DEF Bounded
    <3> QED
      BY <1>7, <3>1, <3>2
  <2> QED
    BY <2>2, <2>3 DEF Held
<1>8. ASSUME NEW s \in Sendings, StoreCount(s) PROVE Bounded' /\ Held'
  <2>1. /\ base[s] # <<>> /\ counter' = base[s][1] + rep[s[1]].count /\ base' = [base EXCEPT ![s] = <<>>]
        /\ overlap' = (overlap \/ \E t \in Sendings \ {s} : base[t] # <<>>) /\ pollCount' = pollCount
    BY <1>8 DEF StoreCount, pollVars
  <2>2. /\ effect[s][2] = 0 /\ effect[s][1] = 1 /\ effect'[s][2] = 1
        /\ \A t \in Sendings : t # s => effect'[t] = effect[t]
    BY <1>1, <1>8, TakeTakesEffect DEF StoreCount
  <2>3. Applied' = Applied \union {s} /\ s \notin Applied
    BY <2>2 DEF Applied
  <2>4. Cardinality(Applied)' = Cardinality(Applied) + 1
    BY <2>3, AppliedFinite, FS_AddElement
  <2>5. Counted' = Counted + pollCount
    BY <1>2, <1>6, <2>1, <2>4, TimesOneMore DEF Counted
  <2>6. base[s][1] \in Nat /\ base[s][1] <= Counted /\ (~overlap => base[s][1] = counter)
    BY <1>5, <2>1 DEF Held
  <2>7. /\ rep'[s[1]].mem = rep[s[1]].mem /\ rep[s[1]].mem \in Nat /\ rep[s[1]].count \in Nat
        /\ rep[s[1]].mem <= rep[s[1]].count /\ rep[s[1]].count <= pollCount
    BY <1>3, <2>2
  <2>8. counter' \in Nat /\ counter' <= Counted'
    BY <1>2, <1>6, <2>1, <2>5, <2>6, <2>7
  <2>9. ASSUME ~overlap', NEW t \in Applied' PROVE rep'[t[1]].mem <= counter'
    <3>1. ~overlap
      BY <2>1, <2>9
    <3>2. CASE t = s
      BY <2>1, <2>6, <2>7, <3>2
    <3>3. CASE t \in Applied
      <4>1. rep[t[1]].mem <= counter /\ rep'[t[1]].mem = rep[t[1]].mem /\ rep[t[1]].mem \in Nat
        BY <1>3, <1>4, <3>1, <3>3 DEF Bounded
      <4> QED
        BY <1>2, <2>1, <2>6, <2>7, <3>1, <4>1
    <3> QED
      BY <2>3, <2>9, <3>2, <3>3
  <2>10. ASSUME NEW t \in Sendings, base'[t] # <<>>
         PROVE  base'[t][1] <= Counted' /\ (~overlap' => base'[t][1] = counter')
    <3>1. t # s /\ base'[t] = base[t]
      BY <1>1, <2>1, <2>10 DEF ServerType
    <3>2. overlap'
      BY <2>1, <2>10, <3>1
    <3>3. base[t][1] \in Nat /\ base[t][1] <= Counted
      BY <1>5, <2>10, <3>1 DEF Held
    <3>4. base[t][1] <= Counted'
      BY <1>2, <1>6, <2>5, <3>3
    <3> QED
      BY <3>1, <3>2, <3>4
  <2> QED
    BY <2>8, <2>9, <2>10 DEF Bounded, Held
<1>9. ASSUME NEW s \in Sendings, SetGauge(s) PROVE Applied' = Applied /\ UNCHANGED <<counter, overlap, base>>
  <2>1. /\ effect'[s][2] = effect[s][2] /\ \A t \in Sendings : t # s => effect'[t] = effect[t]
    BY <1>1, <1>9, TakeTakesEffect DEF SetGauge
  <2> QED
    BY <1>9, <2>1 DEF SetGauge, Applied
<1>10. ASSUME NEW s \in Sendings, ReadCount(s)
       PROVE  /\ Applied' = Applied /\ UNCHANGED <<counter, overlap>>
              /\ \A t \in Sendings : base'[t] = base[t] \/ base'[t] = <<counter>>
  BY <1>1, <1>10 DEF ReadCount, Applied, ServerType
<1>11. Poll \/ Signal \/ Main \/ Answer \/ UNCHANGED vars => UNCHANGED <<effect, counter, overlap, base>>
  BY PollFrame, MainFrame DEF Signal, vars, serverVars, Answer, Store!Tell
<1>12. UNCHANGED <<effect, counter, overlap, base>> => Applied' = Applied
  BY DEF Applied
<1> QED
  BY <1>7, <1>8, <1>9, <1>10, <1>11, <1>12, Steps DEF Server, Work

(* PollCount at the server, to which every report adds the whole count, is no *)
(* less than the poll of any report that was added, unless one sending stored *)
(* it while another had read it; and no more than the sendings that were      *)
(* added explain.                                                             *)
THEOREM PollCountBoundsInvariant == Spec => []PollCountBounds
<1>1. Init => Bounded /\ Held
  <2> SUFFICES ASSUME Init PROVE Bounded /\ Held
    OBVIOUS
  <2>1. \A s \in Sendings : effect[s] = [k \in Items |-> 0] /\ base[s] = <<>>
    BY DEF Init
  <2>2. Applied = {}
    BY <2>1 DEF Applied, Items
  <2>3. Cardinality(Applied) = 0 /\ counter = 0 /\ pollCount = 0
    BY <2>2, FS_EmptySet DEF Init
  <2> QED
    BY <2>1, <2>2, <2>3 DEF Bounded, Held, Counted
<1>2. Delivering /\ Bounded /\ Held /\ [Next]_vars => Bounded' /\ Held'
  BY NextPolling, NextMaking, NextBounded DEF Delivering, Reporting
<1>3. Bounded => PollCountBounds
  BY DEF Bounded, PollCountBounds, Counted
<1> QED
  BY <1>1, <1>2, <1>3, DeliveringInvariant, PTL DEF Spec
==============================================================================
