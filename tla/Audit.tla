--------------------------------- MODULE Audit ---------------------------------
(***************************************************************************)
(* The audit trail of the metrics server (internal/server/server.go):      *)
(* every batch handler puts an entry on AuditCh before it updates the      *)
(* storage, and the AuditLogger goroutine takes the entries and passes     *)
(* them to a file and to a URL, as far as they are configured.  The        *)
(* channel is bounded and a send blocks while it is full, so what the      *)
(* logger does decides whether batches are answered at all.                *)
(*                                                                         *)
(* An entry is the request it tells of.  The update itself is one step     *)
(* here; MemStorage has its interleavings.                                 *)
(***************************************************************************)
EXTENDS Naturals, Sequences, FiniteSets

CONSTANTS
  Reqs,       (* batch requests; each is sent once, and runs in its goroutine *)
  Configs,    (* the configurations: is an audit file, is an audit URL set    *)
  AuditCap,   (* what AuditCh holds (50 in the code)                          *)
  EnvFaults,  (* the faults the environment may show: a subset of Faults      *)
  MaxStarts   (* bound: how often the process is started                      *)

Faults == {"disk", "net", "kill"}

ASSUME AuditAssumption ==
  /\ Configs \subseteq [file : BOOLEAN, url : BOOLEAN]
  /\ AuditCap \in Nat \ {0}
  /\ EnvFaults \subseteq Faults
  /\ MaxStarts \in Nat

VARIABLES
  conf,     (* the configuration; fixed for a behaviour                        *)
  phase,    (* the life of the process, with how it ended                      *)
  starts,   (* how often it was started                                        *)
  ch,       (* AuditCh                                                         *)
  hpc,      (* where the handler of each request is                            *)
  status,   (* what the client got                                             *)
  lpc,      (* where AuditLogger is; "off" when it has returned                *)
  hand,     (* the entry AuditLogger has received: a sequence of at most one   *)
  log,      (* the audit file: entries, whole or not                           *)
  posted,   (* the entries the URL has got                                     *)
  applied,  (* history: the batches this process has given to the storage      *)
  sent,     (* history: the entries this process has put on AuditCh, in order  *)
  skipped   (* history: the entries whose write to the file has failed         *)

handlerVars == <<hpc, status, applied, sent>>
loggerVars  == <<lpc, hand, log, posted, skipped>>
vars == <<conf, phase, starts, ch, handlerVars, loggerVars>>

Running  == phase \in {"up", "draining"}
InFlight == {r \in Reqs : hpc[r] \in {"sending", "updating"}}

-------------------------------------------------------------------------------
(* Starting and ending the process.                                          *)

(* AuditLogger returns at once when nothing is configured, and when the file  *)
(* cannot be opened; O_TRUNC empties a file that is opened.                   *)
OpenAudit ==
  \/ /\ ~conf.file
     /\ lpc' = IF conf.url THEN "recv" ELSE "off"
     /\ UNCHANGED log
  \/ /\ conf.file
     /\ \/ lpc' = "recv" /\ log' = <<>>
        \/ "disk" \in EnvFaults /\ lpc' = "off" /\ UNCHANGED log

Init ==
  /\ conf \in Configs
  /\ phase = "up" /\ starts = 1
  /\ ch = <<>>
  /\ hpc = [r \in Reqs |-> "new"]
  /\ status = [r \in Reqs |-> "none"]
  /\ \/ lpc = IF conf.file \/ conf.url THEN "recv" ELSE "off"
     \/ conf.file /\ "disk" \in EnvFaults /\ lpc = "off"
  /\ hand = <<>> /\ log = <<>> /\ posted = <<>>
  /\ applied = {} /\ sent = <<>> /\ skipped = {}

(* What was on the channel or in the logger's hand is gone.                   *)
Die(how) ==
  /\ phase' = how
  /\ hpc' = [r \in Reqs |-> IF r \in InFlight THEN "done" ELSE hpc[r]]
  /\ status' = [r \in Reqs |-> IF r \in InFlight THEN "lost" ELSE status[r]]
  /\ ch' = <<>> /\ hand' = <<>> /\ lpc' = "off"

Start ==
  /\ ~Running
  /\ starts < MaxStarts
  /\ starts' = starts + 1
  /\ phase' = "up"
  /\ OpenAudit
  /\ sent' = <<>> /\ applied' = {} /\ skipped' = {} /\ posted' = <<>>
  /\ UNCHANGED <<conf, ch, hpc, status, hand>>

Kill ==
  /\ Running
  /\ "kill" \in EnvFaults
  /\ Die("killed")
  /\ UNCHANGED <<conf, starts, log, posted, applied, sent, skipped>>

Signal ==
  /\ phase = "up"
  /\ phase' = "draining"
  /\ UNCHANGED <<conf, starts, ch, handlerVars, loggerVars>>

(* No handler is left: main saves the storage and returns.  Nobody waits for  *)
(* the logger.                                                                *)
Exit ==
  /\ phase = "draining"
  /\ InFlight = {}
  /\ Die("exited")
  /\ UNCHANGED <<conf, starts, log, posted, applied, sent, skipped>>

(* Handlers are left after five seconds: Fatalw.                              *)
DrainTimeout ==
  /\ phase = "draining"
  /\ InFlight # {}
  /\ Die("failed")
  /\ UNCHANGED <<conf, starts, log, posted, applied, sent, skipped>>

-------------------------------------------------------------------------------
(* UpdateBatchMetricsJSONHandler.                                            *)

(* The body is read, unpacked and parsed, or refused with 400.                *)
Arrive(r) ==
  /\ phase = "up"
  /\ hpc[r] = "new"
  /\ \/ hpc' = [hpc EXCEPT ![r] = "sending"] /\ UNCHANGED status
     \/ /\ hpc' = [hpc EXCEPT ![r] = "done"]
        /\ status' = [status EXCEPT ![r] = "refused"]
  /\ UNCHANGED <<conf, phase, starts, ch, applied, sent, loggerVars>>

(* Mutants: the batch is applied first, and a full channel drops the entry;   *)
(* the entry is sent without waiting for room.                                *)
AuditAfterUpdate(r) ==
  /\ hpc[r] = "sending"
  /\ applied' = applied \union {r}
  /\ hpc' = [hpc EXCEPT ![r] = "updating"]
  /\ \/ Len(ch) < AuditCap /\ ch' = Append(ch, r) /\ sent' = Append(sent, r)
     \/ Len(ch) >= AuditCap /\ UNCHANGED <<ch, sent>>
  /\ UNCHANGED <<conf, phase, starts, status, loggerVars>>

SendUnbounded(r) ==
  /\ hpc[r] = "sending"
  /\ ch' = Append(ch, r)
  /\ sent' = Append(sent, r)
  /\ hpc' = [hpc EXCEPT ![r] = "updating"]
  /\ UNCHANGED <<conf, phase, starts, status, applied, loggerVars>>

(* server.AuditCh <- auditEntry                                               *)
SendAudit(r) ==
  /\ hpc[r] = "sending"
  /\ Len(ch) < AuditCap
  /\ ch' = Append(ch, r)
  /\ sent' = Append(sent, r)
  /\ hpc' = [hpc EXCEPT ![r] = "updating"]
  /\ UNCHANGED <<conf, phase, starts, status, applied, loggerVars>>

(* The storage gets the batch; that it may find a type invalid or panic makes *)
(* no difference here.                                                        *)
UpdateBatch(r) ==
  /\ hpc[r] = "updating"
  /\ applied' = applied \union {r}
  /\ hpc' = [hpc EXCEPT ![r] = "done"]
  /\ status' = [status EXCEPT ![r] = "answered"]
  /\ UNCHANGED <<conf, phase, starts, ch, sent, loggerVars>>

-------------------------------------------------------------------------------
(* AuditLogger: one entry at a time.                                         *)

Receive ==
  /\ lpc = "recv"
  /\ ch # <<>>
  /\ hand' = <<Head(ch)>>
  /\ ch' = Tail(ch)
  /\ lpc' = "write"
  /\ UNCHANGED <<conf, phase, starts, handlerVars, log, posted, skipped>>

NextEntry == lpc' = "recv" /\ hand' = <<>>

Line(whole) == [entry |-> Head(hand), whole |-> whole]

(* Mutants: an entry that could not be written is put back; it is posted all  *)
(* the same; the logger returns.                                              *)
WriteEntryOr(onError) ==
  /\ lpc = "write"
  /\ \/ /\ conf.file
        /\ log' = Append(log, Line(TRUE))
        /\ lpc' = "newline"
        /\ UNCHANGED <<hand, skipped, ch>>
     \/ /\ ~conf.file \/ "disk" \in EnvFaults
        /\ onError
        /\ UNCHANGED <<log, skipped>>
  /\ UNCHANGED <<conf, phase, starts, handlerVars, posted>>

WriteEntryRequeues == WriteEntryOr(ch' = Append(ch, Head(hand)) /\ NextEntry)
WriteEntryGoesOn   == WriteEntryOr(lpc' = "newline" /\ UNCHANGED <<hand, ch>>)
WriteEntryReturns  == WriteEntryOr(lpc' = "off" /\ hand' = <<>> /\ UNCHANGED ch)

(* file.Write(data).  Without an audit file, file is nil and the write fails  *)
(* every time.  A failed write may leave a part of the entry.                 *)
WriteEntry ==
  /\ lpc = "write"
  /\ \/ /\ conf.file
        /\ log' = Append(log, Line(TRUE))
        /\ lpc' = "newline"
        /\ UNCHANGED <<hand, skipped>>
     \/ /\ conf.file /\ "disk" \in EnvFaults
        /\ log' \in {log, Append(log, Line(FALSE))}
        /\ skipped' = skipped \union {Head(hand)}
        /\ NextEntry
     \/ /\ ~conf.file
        /\ skipped' = skipped \union {Head(hand)}
        /\ NextEntry
        /\ UNCHANGED log
  /\ UNCHANGED <<conf, phase, starts, ch, handlerVars, posted>>

WriteNewline ==
  /\ lpc = "newline"
  /\ \/ conf.url /\ lpc' = "post" /\ UNCHANGED hand
     \/ ~conf.url /\ NextEntry
     \/ "disk" \in EnvFaults /\ NextEntry
  /\ UNCHANGED <<conf, phase, starts, ch, handlerVars, log, posted, skipped>>

(* client.Post: without a timeout, it may take for ever.  When it fails resp  *)
(* is nil, and resp.Body ends the process.                                    *)
Post ==
  /\ lpc = "post"
  /\ posted' = Append(posted, Head(hand))
  /\ NextEntry
  /\ UNCHANGED <<conf, phase, starts, ch, handlerVars, log, skipped>>

PostFails ==
  /\ lpc = "post"
  /\ "net" \in EnvFaults
  /\ posted' \in {posted, Append(posted, Head(hand))}
  /\ Die("fault")
  /\ UNCHANGED <<conf, starts, log, applied, sent, skipped>>

Logger == Receive \/ WriteEntry \/ WriteNewline \/ Post

-------------------------------------------------------------------------------
Next ==
  \/ \E r \in Reqs : Arrive(r) \/ SendAudit(r) \/ UpdateBatch(r)
  \/ Logger \/ PostFails
  \/ Signal \/ Exit \/ DrainTimeout \/ Kill \/ Start

Spec == Init /\ [][Next]_vars

(* The scheduler runs the goroutines that can run, a sender waiting for a     *)
(* channel gets its turn (Go queues them), and five seconds pass.  Post waits *)
(* for somebody else, and nothing makes a client send.                        *)
FairSpec ==
  /\ Spec
  /\ \A r \in Reqs : SF_vars(SendAudit(r)) /\ WF_vars(UpdateBatch(r))
  /\ WF_vars(Exit) /\ WF_vars(DrainTimeout)
  /\ WF_vars(Receive) /\ WF_vars(WriteEntry) /\ WF_vars(WriteNewline)

-------------------------------------------------------------------------------
(* Properties.                                                               *)

TypeOK ==
  /\ conf \in Configs
  /\ phase \in {"up", "draining", "exited", "failed", "fault", "killed"}
  /\ starts \in Nat
  /\ ch \in Seq(Reqs) /\ Len(ch) <= AuditCap
  /\ hpc \in [Reqs -> {"new", "sending", "updating", "done"}]
  /\ status \in [Reqs -> {"none", "answered", "refused", "lost"}]
  /\ lpc \in {"off", "recv", "write", "newline", "post"}
  /\ hand \in Seq(Reqs) /\ Len(hand) = (IF lpc \in {"off", "recv"} THEN 0 ELSE 1)
  /\ log \in Seq([entry : Reqs, whole : BOOLEAN])
  /\ posted \in Seq(Reqs)
  /\ applied \in SUBSET Reqs
  /\ sent \in Seq(Reqs)
  /\ skipped \in SUBSET Reqs

Entries(s) == {s[k] : k \in DOMAIN s}

(* Those of s that are in S, in their order.                                  *)
Those(s, S) ==
  LET kept[k \in 0 .. Len(s)] ==
        IF k = 0 THEN <<>> ELSE IF s[k] \in S THEN Append(kept[k - 1], s[k]) ELSE kept[k - 1]
  IN  kept[Len(s)]

Whole == [entry : Reqs, whole : {TRUE}]
Logged == LET w == Those(log, Whole) IN [k \in DOMAIN w |-> w[k].entry]
InFile == {log[k].entry : k \in {j \in DOMAIN log : log[j] \in Whole}}

(* While the process runs with an audit file, the entries come out of the     *)
(* channel into the file in the order they were sent, none twice and none     *)
(* left out but those whose write failed.                                     *)
AuditOrder ==
  conf.file /\ Running /\ lpc # "off" =>
    LET due == Those(sent, Reqs \ skipped)
        waiting == IF lpc = "write" THEN hand \o ch ELSE ch
    IN  due = Logged \o waiting

(* No batch reaches the storage before its entry is on its way, so a process  *)
(* that dies at any point, with its disk and its URL working, has applied at  *)
(* most AuditCap + 1 batches that are not in the audit file.                  *)
AuditedFirst == applied \subseteq Entries(sent)

AuditLag ==
  conf.file /\ Running /\ lpc # "off" =>
    Cardinality(applied \ (InFile \union skipped)) <= AuditCap + 1

(* With a file and a URL, the URL never knows of an entry the file has not    *)
(* got, and gets them in the same order.                                      *)
PostedFollowsFile ==
  conf.file /\ Running =>
    /\ Entries(posted) \subseteq InFile
    /\ posted = Those(Logged, Entries(posted))

(* With an audit file that was opened and no URL to wait for, no batch waits  *)
(* for the channel for ever.                                                  *)
BatchesAnsweredWithFile ==
  \A r \in Reqs :
    conf.file /\ ~conf.url /\ lpc # "off" /\ hpc[r] = "sending" ~> hpc[r] = "done"

(* A batch that is received is answered, or lost with the process, whatever   *)
(* is configured: the flags of the audit are optional.                        *)
BatchesAnswered == \A r \in Reqs : hpc[r] = "sending" ~> hpc[r] = "done"

(* "It writes audit entries to a file and/or sends them to an audit URL":     *)
(* what the logger is done with has reached the URL if there is one.          *)
UrlGetsEntries ==
  conf.url /\ Running /\ lpc = "recv" =>
    Entries(sent) = Entries(posted) \union Entries(ch)
=============================================================================
