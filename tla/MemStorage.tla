------------------------------ MODULE MemStorage ------------------------------
(***************************************************************************)
(* The in-memory storage of the metrics server (internal/storage/          *)
(* memstorage.go), driven as cmd/server/main.go and internal/server drive  *)
(* it: net/http runs every request in a goroutine of its own, the backup   *)
(* goroutine saves the map to a file now and then, and the main goroutine  *)
(* saves it once more when the process is told to stop.                    *)
(*                                                                         *)
(* The map has no lock, so every access of it is a step of its own.        *)
(*                                                                         *)
(* Numbers are abstracted to where they come from: the k-th item of        *)
(* request r is the write <<r, k>>, a counter is the set of the increments *)
(* added into it and a gauge the set holding the one write whose Value     *)
(* pointer it keeps ({} while that pointer is nil).  Adding to a counter   *)
(* is then a union, which is addition as long as no increment is added     *)
(* twice: NoDoubleCount says that none is.                                 *)
(*                                                                         *)
(* An item is what the handler passes to the storage.  What the two JSON   *)
(* update handlers do before that, in objects MetricPool may hand to two   *)
(* of them at once, and what becomes of the number behind a Value pointer  *)
(* they stored, is the subject of PooledUpdate.                            *)
(***************************************************************************)
EXTENDS Naturals, Sequences

CONSTANTS
  Reqs,       (* the requests clients send; each runs in its own goroutine   *)
  IDs,        (* the metric names                                            *)
  Inputs,     (* what a request may ask for                                  *)
  EnvFaults,  (* the faults the environment may show: a subset of Faults     *)
  MaxStarts   (* bound: how often the process is started                     *)

Faults == {"kill", "disk"}

(* An item of a request body or URL.  arg is "nil" when the field its type  *)
(* needs (value or delta) is left out, "nan" for a gauge that is not a      *)
(* number and "bad" when the number or the body cannot be parsed.           *)
Item == [mtype : {"gauge", "counter", "other"}, id : IDs,
         arg : {"ok", "nil", "nan", "bad"}]

Request == [route : {"url", "json", "batch", "getURL", "getJSON", "page"},
            items : Seq(Item)]

(* Every route but the batch names one metric (the page names none, its     *)
(* item is not looked at).  ParseFloat reads "NaN" and JSON has no NaN, so   *)
(* only the URL can carry one; a number in the URL is never missing.         *)
Sendable(q) ==
  /\ q.route # "batch" => Len(q.items) = 1
  /\ \A k \in DOMAIN q.items :
       /\ q.items[k].arg = "nan" => q.route = "url" /\ q.items[k].mtype = "gauge"
       /\ q.items[k].arg = "nil" => q.route \in {"json", "batch"}
       /\ q.items[k].arg = "bad" => q.route \notin {"getURL", "page"}

ASSUME StorageAssumption ==
  /\ Inputs \subseteq Request
  /\ \A q \in Inputs : Sendable(q)
  /\ EnvFaults \subseteq Faults
  /\ MaxStarts \in Nat

VARIABLES
  db,      (* m.db: an entry for each name, "absent" when there is no key    *)
  file,    (* the file at fileStoragePath                                    *)
  phase,   (* the life of the process, with how it ended                     *)
  starts,  (* how often it was started                                       *)
  req,     (* what each request asks for; fixed for a behaviour              *)
  rpc,     (* where the goroutine of each request is                         *)
  idx,     (* the item it works on                                           *)
  base,    (* the counter it read and will add its increment to              *)
  left,    (* the keys its iteration over the map has yet to visit           *)
  failed,  (* whether errs or err is non-nil                                 *)
  status,  (* what the client got                                            *)
  spc,     (* where each of the two goroutines that save is                  *)
  buf,     (* the entries json.Marshal has read so far                       *)
  todo,    (* the keys json.Marshal has yet to visit                         *)
  acc,     (* history: the increments each name would have if none were lost *)
  made,    (* history: the writes that have been stored                      *)
  raced,   (* history: names written while another request held a base       *)
  solo     (* history: only the main goroutine was saving at shutdown        *)

requestVars == <<rpc, idx, base, left, failed, status>>
saverVars   == <<spc, buf, todo>>
historyVars == <<acc, made, raced, solo>>
vars == <<db, file, phase, starts, req, requestVars, saverVars, historyVars>>

Savers   == {"backup", "main"}
Running  == phase \in {"up", "draining", "saving"}
InFlight == {r \in Reqs : rpc[r] \notin {"new", "done"}}

Write  == Reqs \X (Nat \ {0})
Entry  == [mtype : {"absent", "gauge", "counter"}, from : SUBSET Write]
Absent == [mtype |-> "absent", from |-> {}]
EmptyDB == [i \in IDs |-> Absent]

(* The item request r is working on.                                        *)
Cur(r) == req[r].items[idx[r]]

(* encoding/json refuses NaN, wherever in the map it is.                    *)
IsNaN(e) ==
  e.mtype = "gauge" /\ \E w \in e.from : req[w[1]].items[w[2]].arg = "nan"

-------------------------------------------------------------------------------
(* Starting a process.  With recover set NewMemstorage reads the file; a text *)
(* that cannot be unmarshaled gives an empty map, and so does a file that     *)
(* cannot be read, whatever the reason, which os.Create then truncates.       *)

Recovered == IF file.kind = "json" THEN file.db ELSE EmptyDB

NewMemstorage ==
  \/ db' = EmptyDB /\ UNCHANGED file
  \/ file.kind # "missing" /\ db' = Recovered /\ UNCHANGED file
  \/ /\ file.kind = "missing" \/ "disk" \in EnvFaults
     /\ db' = EmptyDB /\ file' = [kind |-> "empty", db |-> EmptyDB]

Init ==
  /\ db = EmptyDB
  /\ file = [kind |-> "missing", db |-> EmptyDB]
  /\ phase = "up"
  /\ starts = 1
  /\ req \in [Reqs -> Inputs]
  /\ rpc = [r \in Reqs |-> "new"]
  /\ idx = [r \in Reqs |-> 1]
  /\ base = [r \in Reqs |-> {}]
  /\ left = [r \in Reqs |-> {}]
  /\ failed = [r \in Reqs |-> FALSE]
  /\ status = [r \in Reqs |-> "none"]
  /\ spc = [s \in Savers |-> "idle"]
  /\ buf = [s \in Savers |-> EmptyDB]
  /\ todo = [s \in Savers |-> {}]
  /\ acc = [i \in IDs |-> {}]
  /\ made = {} /\ raced = {}
  /\ solo = TRUE

Start ==
  /\ ~Running
  /\ starts < MaxStarts
  /\ starts' = starts + 1
  /\ phase' = "up"
  /\ NewMemstorage
  /\ acc' = [i \in IDs |-> IF db'[i].mtype = "counter" THEN db'[i].from ELSE {}]
  /\ raced' = {}
  /\ solo' = TRUE
  /\ UNCHANGED <<req, requestVars, saverVars, made>>

(* The process ends: its goroutines are gone, the file stays as it is, and a *)
(* client whose request was in flight gets no answer.                        *)
Die(how) ==
  /\ phase' = how
  /\ rpc' = [r \in Reqs |-> IF r \in InFlight THEN "done" ELSE rpc[r]]
  /\ status' = [r \in Reqs |-> IF r \in InFlight THEN "lost" ELSE status[r]]
  /\ base' = [r \in Reqs |-> {}]
  /\ left' = [r \in Reqs |-> {}]
  /\ spc' = [s \in Savers |-> "idle"]
  /\ buf' = [s \in Savers |-> EmptyDB]
  /\ todo' = [s \in Savers |-> {}]

Kill ==
  /\ Running
  /\ "kill" \in EnvFaults
  /\ Die("killed")
  /\ UNCHANGED <<db, file, starts, req, idx, failed, historyVars>>

(* The Go runtime ends the process when it sees a map access overlap a write *)
(* of the same map ("concurrent map read and map write", "... writes",       *)
(* "... iteration ...").  Two accesses can overlap when both goroutines are  *)
(* about to make one; when the runtime sees nothing, they happen in turn.    *)
ReadsMap(r) ==
  \/ rpc[r] \in {"lookup", "load", "reload", "find"}
  \/ rpc[r] = "page" /\ left[r] # {}
  \/ rpc[r] = "reject" /\ req[r].route = "json"

MapFault ==
  /\ Running
  /\ \E w \in Reqs :
       /\ rpc[w] = "store"
       /\ \/ \E r \in Reqs \ {w} : rpc[r] = "store" \/ ReadsMap(r)
          \/ \E s \in Savers : spc[s] = "marshal" /\ todo[s] # {}
  /\ Die("fault")
  /\ UNCHANGED <<db, file, starts, req, idx, failed, historyVars>>

-------------------------------------------------------------------------------
(* The handlers, and UpdateMetric, UpdateBatchMetrics, GetMetricByName and    *)
(* GetMetrics under them.                                                     *)

(* The goroutine of r ends and the client gets s.                           *)
Finish(r, s) ==
  /\ rpc' = [rpc EXCEPT ![r] = "done"]
  /\ status' = [status EXCEPT ![r] = s]
  /\ base' = [base EXCEPT ![r] = {}]
  /\ left' = [left EXCEPT ![r] = {}]
  /\ UNCHANGED idx

Goto(r, pc) ==
  /\ rpc' = [rpc EXCEPT ![r] = pc]
  /\ UNCHANGED <<idx, base, left, status>>

(* Mutant: no default case.                                                  *)
FirstStepNoDefault(item) == IF item.mtype = "counter" THEN "lookup" ELSE "store"

FirstStep(item) ==
  CASE item.mtype = "gauge"   -> "store"
    [] item.mtype = "counter" -> "lookup"
    [] OTHER                  -> "reject"

(* A number of the right kind must be there; other types are not looked at.  *)
ValidateMetric(item) == item.mtype \in {"gauge", "counter"} => item.arg # "nil"

(* What is turned away with 400 before the map is touched.  Only the single  *)
(* update validates: UpdateBatchMetrics does not call ValidateMetric.        *)
Refused(q) ==
  \/ \E k \in DOMAIN q.items : q.items[k].arg = "bad"
  \/ q.route = "url" /\ q.items[1].mtype = "other"
  \/ q.route \in {"url", "json"} /\ ~ValidateMetric(q.items[1])

Arrive(r) ==
  /\ phase = "up"
  /\ rpc[r] = "new"
  /\ LET q == req[r] IN
       \/ Refused(q) /\ Finish(r, "refused")
       \/ ~Refused(q) /\ q.items = <<>> /\ Finish(r, "ok")
       \/ /\ ~Refused(q) /\ q.items # <<>>
          /\ \/ q.route \in {"url", "json", "batch"} /\ Goto(r, FirstStep(q.items[1]))
             \/ q.route \in {"getURL", "getJSON"} /\ Goto(r, "find")
             \/ /\ q.route = "page"
                /\ rpc' = [rpc EXCEPT ![r] = "page"]
                /\ left' = [left EXCEPT ![r] = IDs]
                /\ UNCHANGED <<idx, base, status>>
  /\ UNCHANGED <<db, file, phase, starts, req, failed, saverVars, historyVars>>

(* Mutant: ok is not looked at.                                               *)
LookupUnchecked(r) ==
  /\ rpc[r] = "lookup"
  /\ Goto(r, "load")
  /\ UNCHANGED <<db, file, phase, starts, req, failed, saverVars, historyVars>>

(* _, ok := m.db[metric.ID].  A counter without a delta is dereferenced       *)
(* whichever way ok goes; net/http recovers the panic and drops the           *)
(* connection.                                                                *)
Lookup(r) ==
  /\ rpc[r] = "lookup"
  /\ \/ db[Cur(r).id].mtype # "absent" /\ Goto(r, "load")
     \/ db[Cur(r).id].mtype = "absent" /\ Cur(r).arg # "nil" /\ Goto(r, "store")
     \/ db[Cur(r).id].mtype = "absent" /\ Cur(r).arg = "nil" /\ Finish(r, "panic")
  /\ UNCHANGED <<db, file, phase, starts, req, failed, saverVars, historyVars>>

(* Mutant: whatever number the entry has is added to.                        *)
LoadAnyType(r) ==
  /\ rpc[r] = "load"
  /\ base' = [base EXCEPT ![r] = db[Cur(r).id].from]
  /\ rpc' = [rpc EXCEPT ![r] = "store"]
  /\ UNCHANGED <<db, file, phase, starts, req, idx, left, failed, status, saverVars,
                 historyVars>>

(* *m.db[metric.ID].Delta + *metric.Delta: Delta is nil in a gauge.           *)
Load(r) ==
  /\ rpc[r] = "load"
  /\ \/ /\ db[Cur(r).id].mtype # "counter" \/ Cur(r).arg = "nil"
        /\ Finish(r, "panic")
     \/ /\ db[Cur(r).id].mtype = "counter" /\ Cur(r).arg # "nil"
        /\ base' = [base EXCEPT ![r] = db[Cur(r).id].from]
        /\ rpc' = [rpc EXCEPT ![r] = "store"]
        /\ UNCHANGED <<idx, left, status>>
  /\ UNCHANGED <<db, file, phase, starts, req, failed, saverVars, historyVars>>

(* Mutant: the new delta replaces the old one.                               *)
NewEntryReplaced(r) == [mtype |-> Cur(r).mtype, from |-> {<<r, idx[r]>>}]

(* m.db[metric.ID] = metrics.Metrics{...}                                     *)
NewEntry(r) ==
  [mtype |-> Cur(r).mtype,
   from  |-> IF Cur(r).arg = "nil" THEN {} ELSE base[r] \union {<<r, idx[r]>>}]

(* Requests that hold a base for name i, read before r's write of i.          *)
HoldsBase(i) ==
  {r \in Reqs : rpc[r] = "store" /\ Cur(r).mtype = "counter" /\ Cur(r).id = i}

Store(r) ==
  /\ rpc[r] = "store"
  /\ LET i == Cur(r).id IN
       /\ db' = [db EXCEPT ![i] = NewEntry(r)]
       /\ acc' = [acc EXCEPT ![i] = IF Cur(r).mtype = "gauge" THEN {}
                                    ELSE @ \union {<<r, idx[r]>>}]
       /\ made' = made \union {<<r, idx[r]>>}
       /\ raced' = IF HoldsBase(i) \ {r} # {} THEN raced \union {i} ELSE raced
  /\ rpc' = [rpc EXCEPT ![r] = "reload"]
  /\ base' = [base EXCEPT ![r] = {}]
  /\ UNCHANGED <<file, phase, starts, req, idx, left, failed, status, saverVars, solo>>

(* Mutant: the item is worked on again.                                      *)
NextItemAgain(r, s) ==
  \/ idx[r] = Len(req[r].items) /\ Finish(r, s)
  \/ idx[r] < Len(req[r].items) /\ Goto(r, FirstStep(Cur(r)))

(* The item is done: the next one of the batch, or the answer.                *)
NextItem(r, s) ==
  \/ idx[r] = Len(req[r].items) /\ Finish(r, s)
  \/ /\ idx[r] < Len(req[r].items)
     /\ idx' = [idx EXCEPT ![r] = @ + 1]
     /\ rpc' = [rpc EXCEPT ![r] = FirstStep(req[r].items[idx[r] + 1])]
     /\ UNCHANGED <<base, left, status>>

(* The entry is read back for the answer.  UpdateHandler dereferences the     *)
(* field of the type it was asked for; the JSON handlers cannot marshal a     *)
(* NaN another request has put there in between.                              *)
Answer(r, e, bad) ==
  CASE req[r].route = "url" /\ (e.mtype # Cur(r).mtype \/ e.from = {}) -> "panic"
    [] req[r].route = "batch" /\ bad -> "error"
    [] req[r].route = "json" /\ IsNaN(e) -> "error"
    [] OTHER -> "ok"

Reload(r) ==
  /\ rpc[r] = "reload"
  /\ LET e == db[Cur(r).id]
         bad == failed[r] \/ (req[r].route = "batch" /\ IsNaN(e))
     IN  /\ failed' = [failed EXCEPT ![r] = bad]
         /\ NextItem(r, Answer(r, e, bad))
  /\ UNCHANGED <<db, file, phase, starts, req, saverVars, historyVars>>

(* Mutant: a batch with an unknown type is answered with 400 as well.        *)
RejectRefuses(r) ==
  /\ rpc[r] = "reject"
  /\ failed' = [failed EXCEPT ![r] = TRUE]
  /\ NextItem(r, "refused")
  /\ UNCHANGED <<db, file, phase, starts, req, saverVars, historyVars>>

(* default: errors.New("invalid Mtype").  The batch goes on with its next     *)
(* item and answers 500 in the end.                                           *)
Reject(r) ==
  /\ rpc[r] = "reject"
  /\ failed' = [failed EXCEPT ![r] = TRUE]
  /\ NextItem(r, IF req[r].route = "json" THEN "refused" ELSE "error")
  /\ UNCHANGED <<db, file, phase, starts, req, saverVars, historyVars>>

(* GetMetricByName looks the name up, whatever the type it was asked for.     *)
Find(r) ==
  /\ rpc[r] = "find"
  /\ LET e == db[Cur(r).id] IN
       Finish(r, IF e.mtype = "absent" THEN "notfound"
                 ELSE IF req[r].route = "getJSON" /\ IsNaN(e) THEN "error"
                 ELSE "ok")
  /\ UNCHANGED <<db, file, phase, starts, req, failed, saverVars, historyVars>>

(* GetMetrics: range m.db, one key per step.  A key that appears during the   *)
(* iteration is visited or not.  A gauge without a value is dereferenced.     *)
PageKey(r) ==
  /\ rpc[r] = "page"
  /\ \/ /\ left[r] = {}
        /\ Finish(r, "ok")
     \/ \E i \in left[r] :
          \/ db[i].mtype = "gauge" /\ db[i].from = {} /\ Finish(r, "panic")
          \/ /\ ~(db[i].mtype = "gauge" /\ db[i].from = {})
             /\ left' = [left EXCEPT ![r] = @ \ {i}]
             /\ UNCHANGED <<rpc, idx, base, status>>
  /\ UNCHANGED <<db, file, phase, starts, req, failed, saverVars, historyVars>>

Handle(r) ==
  \/ Lookup(r) \/ Load(r) \/ Store(r) \/ Reload(r) \/ Reject(r)
  \/ Find(r) \/ PageKey(r)

-------------------------------------------------------------------------------
(* SaveDatabase, run by the backup goroutine and, at shutdown, by main.       *)

(* storeInterval has passed.                                                  *)
BackupService ==
  /\ Running
  /\ spc["backup"] = "idle"
  /\ spc' = [spc EXCEPT !["backup"] = "create"]
  /\ UNCHANGED <<db, file, phase, starts, req, requestVars, buf, todo, historyVars>>

(* SaveDatabase returns.  The backup goroutine sleeps again, or is gone for   *)
(* good when it got an error; main ignores the error and goes on to exit.     *)
Return(s, stored, err) ==
  /\ spc' = [spc EXCEPT ![s] = IF s = "main" THEN (IF stored THEN "stored" ELSE "unstored")
                                 ELSE IF err   THEN "stopped" ELSE "idle"]
  /\ buf' = [buf EXCEPT ![s] = EmptyDB]
  /\ todo' = [todo EXCEPT ![s] = {}]

(* Mutant: the file is opened without being truncated.                       *)
CreateKeeps(s) ==
  /\ spc[s] = "create"
  /\ file' = IF file.kind = "missing" THEN [file EXCEPT !.kind = "empty"] ELSE file
  /\ spc' = [spc EXCEPT ![s] = "marshal"]
  /\ todo' = [todo EXCEPT ![s] = IDs]
  /\ solo' = IF s = "main" THEN spc["backup"] \notin {"marshal", "write"}
             ELSE solo /\ phase # "saving"
  /\ UNCHANGED <<db, phase, starts, req, requestVars, buf, acc, made, raced>>

(* os.Create truncates what is there.                                         *)
Create(s) ==
  /\ spc[s] = "create"
  /\ \/ /\ file' = [kind |-> "empty", db |-> EmptyDB]
        /\ spc' = [spc EXCEPT ![s] = "marshal"]
        /\ todo' = [todo EXCEPT ![s] = IDs]
        /\ UNCHANGED buf
     \/ /\ "disk" \in EnvFaults
        /\ Return(s, FALSE, TRUE)
        /\ UNCHANGED file
  /\ solo' = IF s = "main" THEN spc["backup"] \notin {"marshal", "write"}
             ELSE solo /\ phase # "saving"
  /\ UNCHANGED <<db, phase, starts, req, requestVars, acc, made, raced>>

(* json.Marshal(m.db) iterates over the map, one key per step.                *)
Marshal(s) ==
  /\ spc[s] = "marshal"
  /\ \/ /\ todo[s] = {}
        /\ spc' = [spc EXCEPT ![s] = "write"]
        /\ UNCHANGED <<buf, todo>>
     \/ \E i \in todo[s] :
          /\ buf' = [buf EXCEPT ![s][i] = db[i]]
          /\ todo' = [todo EXCEPT ![s] = @ \ {i}]
          /\ UNCHANGED spc
  /\ UNCHANGED <<db, file, phase, starts, req, requestVars, historyVars>>

(* Each save has a file handle of its own, at offset 0: when the other one    *)
(* has written in between, what it wrote stays behind the end of a shorter    *)
(* text.  A text with a NaN in it is never made: Marshal returns no bytes,    *)
(* the error is logged, and nothing is written into the truncated file.       *)
Written(s) ==
  LET new == [kind |-> "json", db |-> buf[s]]
  IN  IF \E i \in IDs : IsNaN(buf[s][i]) THEN {file}
      ELSE IF file.kind = "empty" \/ file = new THEN {new}
      ELSE {new, [kind |-> "torn", db |-> EmptyDB]}

(* A failed write may leave a part of the text; its error is not returned.    *)
WriteFile(s) ==
  /\ spc[s] = "write"
  /\ \/ /\ file' \in Written(s)
        /\ Return(s, TRUE, FALSE)
     \/ /\ "disk" \in EnvFaults
        /\ file' \in {file, [kind |-> "torn", db |-> EmptyDB]}
        /\ Return(s, FALSE, FALSE)
  /\ UNCHANGED <<db, phase, starts, req, requestVars, historyVars>>

Save(s) == Create(s) \/ Marshal(s) \/ WriteFile(s)

(* main returns, which ends the process whatever the backup goroutine does.   *)
Exit ==
  /\ spc["main"] \in {"stored", "unstored"}
  /\ Die(IF spc["main"] = "stored" THEN "saved" ELSE "unsaved")
  /\ UNCHANGED <<db, file, starts, req, idx, failed, historyVars>>

(* A signal: HTTPServer.Shutdown closes the listeners and waits for the       *)
(* requests in flight, for five seconds at most.                              *)
Signal ==
  /\ phase = "up"
  /\ phase' = "draining"
  /\ UNCHANGED <<db, file, starts, req, requestVars, saverVars, historyVars>>

(* Mutant: the backup goroutine, which nothing stops, is waited for.         *)
DrainedJoinsBackup ==
  /\ phase = "draining"
  /\ InFlight = {} /\ spc["backup"] = "stopped"
  /\ phase' = "saving"
  /\ spc' = [spc EXCEPT !["main"] = "create"]
  /\ UNCHANGED <<db, file, starts, req, requestVars, buf, todo, historyVars>>

Drained ==
  /\ phase = "draining"
  /\ InFlight = {}
  /\ phase' = "saving"
  /\ spc' = [spc EXCEPT !["main"] = "create"]
  /\ UNCHANGED <<db, file, starts, req, requestVars, buf, todo, historyVars>>

(* The five seconds are over: Fatalw exits, and nothing is saved.             *)
DrainTimeout ==
  /\ phase = "draining"
  /\ InFlight # {}
  /\ Die("failed")
  /\ UNCHANGED <<db, file, starts, req, idx, failed, historyVars>>

-------------------------------------------------------------------------------
Next ==
  \/ \E r \in Reqs : Arrive(r) \/ Handle(r)
  \/ BackupService
  \/ \E s \in Savers : Save(s)
  \/ Signal \/ Drained \/ DrainTimeout \/ Exit
  \/ MapFault \/ Kill \/ Start

Spec == Init /\ [][Next]_vars

(* The Go scheduler runs every goroutine that can run, so a handler that has  *)
(* begun, the backup goroutine and main take their steps.  Nothing makes a    *)
(* client send, a signal come or anybody start the process again.             *)
FairSpec ==
  /\ Spec
  /\ \A r \in Reqs : WF_vars(Handle(r))
  /\ WF_vars(BackupService)
  /\ \A s \in Savers : WF_vars(Save(s))
  /\ WF_vars(Drained) /\ WF_vars(Exit)

-------------------------------------------------------------------------------
(* Properties.                                                               *)

Phase == {"up", "draining", "saving", "saved", "unsaved", "failed", "fault", "killed"}
PC == {"new", "lookup", "load", "store", "reload", "reject", "find", "page", "done"}
Outcome == {"none", "ok", "refused", "notfound", "error", "panic", "lost"}
SaverPC == {"idle", "create", "marshal", "write", "stopped", "stored", "unstored"}
FileContent == [kind : {"missing", "empty", "torn", "json"}, db : [IDs -> Entry]]

TypeOK ==
  /\ db \in [IDs -> Entry]
  /\ file \in FileContent
  /\ phase \in Phase
  /\ starts \in Nat
  /\ req \in [Reqs -> Inputs]
  /\ rpc \in [Reqs -> PC]
  /\ idx \in [Reqs -> Nat \ {0}]
  /\ base \in [Reqs -> SUBSET Write]
  /\ left \in [Reqs -> SUBSET IDs]
  /\ failed \in [Reqs -> BOOLEAN]
  /\ status \in [Reqs -> Outcome]
  /\ spc \in [Savers -> SaverPC]
  /\ buf \in [Savers -> [IDs -> Entry]]
  /\ todo \in [Savers -> SUBSET IDs]
  /\ acc \in [IDs -> SUBSET Write]
  /\ made \in SUBSET Write
  /\ raced \in SUBSET IDs
  /\ solo \in BOOLEAN

(* The writes request r has made so far.                                      *)
Done(r) == {k \in 1..idx[r] : k < idx[r] \/ rpc[r] \in {"reload", "done"}}

(* w is a write already made, of an item of this type, to this name.          *)
MadeFor(w, i, mtype) ==
  /\ w[2] \in Done(w[1])
  /\ w[2] \in DOMAIN req[w[1]].items
  /\ req[w[1]].items[w[2]].id = i
  /\ req[w[1]].items[w[2]].mtype = mtype

Traced(d) == \A i \in IDs : \A w \in d[i].from : MadeFor(w, i, d[i].mtype)

(* Whatever is visible, in the map, in the file or in a save that is still    *)
(* running, was written by a request that asked for that very name and type,  *)
(* and no earlier than that request's own store: neither a lost race, a torn  *)
(* file nor a restart ever moves a value to another metric or makes one up.   *)
Provenance ==
  /\ Traced(db)
  /\ Traced(file.db)
  /\ \A s \in Savers : Traced(buf[s])

(* A counter update never adds its own increment to a base that already holds *)
(* it, so an increment is counted at most once, races and restarts included.  *)
NoDoubleCount ==
  \A r \in Reqs :
    rpc[r] = "store" /\ Cur(r).mtype = "counter" => <<r, idx[r]>> \notin base[r]

(* A counter misses an increment only when two requests had read a base for   *)
(* it at the same time: without such a race the read, add and write of        *)
(* UpdateMetric amount to one atomic addition.                                *)
ExactUnlessRaced ==
  \A i \in IDs \ raced : db[i].mtype = "counter" => db[i].from = acc[i]

(* An update the client was told was a bad request (400) has left nothing     *)
(* behind, in the map, in the file or in a save: a batch is never refused     *)
(* once its first items have been applied.                                    *)
NoWriteOf(r, d) == \A i \in IDs : \A w \in d[i].from : w[1] # r

RefusedLeavesNoTrace ==
  \A r \in Reqs : status[r] = "refused" =>
    /\ NoWriteOf(r, db)
    /\ NoWriteOf(r, file.db)
    /\ \A s \in Savers : NoWriteOf(r, buf[s])

(* A handler panics, so that its client gets no answer and cannot know        *)
(* whether the update was made, only if a number was left out, by its own     *)
(* request or in a gauge it meets, or if both types were sent for its name.   *)
(* Clients that send every number, and one type for each name, are always     *)
(* answered, whatever the handlers interleave, and whatever was saved half    *)
(* way or recovered.                                                          *)
MadeItem(w) == req[w[1]].items[w[2]]
NoNumber(item) == item.arg = "nil"

PanicExplained(r) ==
  \/ \E k \in DOMAIN req[r].items : NoNumber(req[r].items[k])
  \/ \E w \in made : MadeItem(w).mtype = "gauge" /\ NoNumber(MadeItem(w))
  \/ \E k \in DOMAIN req[r].items, w \in made :
       /\ MadeItem(w).id = req[r].items[k].id
       /\ {MadeItem(w).mtype, req[r].items[k].mtype} = {"gauge", "counter"}

PanicsExplained == \A r \in Reqs : status[r] = "panic" => PanicExplained(r)

(* When the process exits after a save that reported success, with no NaN in  *)
(* the map and without the backup goroutine at work on the same file, the     *)
(* file holds the whole map: every answered update survives a clean shutdown. *)
HasNaN == \E i \in IDs : IsNaN(db[i])
Saved  == file = [kind |-> "json", db |-> db]

ShutdownSaves == phase = "saved" /\ solo /\ ~HasNaN => Saved

(* What a shutdown that logs "Database saved to file sucessfully" is meant to *)
(* leave behind, the other goroutine that saves or not.                       *)
ShutdownBacksUp == phase = "saved" /\ ~HasNaN => Saved

(* An increment of a counter that the client was told was accepted, and that  *)
(* no gauge of that name has replaced, is in the counter.                     *)
AcceptedKept ==
  \A i \in IDs : db[i].mtype = "counter" =>
    {w \in acc[i] : status[w[1]] = "ok"} \subseteq db[i].from

(* The metrics of an update whose type the storage knows.                     *)
Known(r) == {k \in DOMAIN req[r].items : /\ req[r].route \in {"url", "json", "batch"}
                                          /\ req[r].items[k].mtype # "other"}

(* What MetricStore promises.  A read has no metrics that take effect.        *)
Promise == INSTANCE MetricStore WITH
  Calls  <- Reqs,
  call   <- [r \in Reqs |->
               [items    |-> Known(r),
                times    |-> 1,
                complete |-> Known(r) = DOMAIN req[r].items \/ req[r].route \in {"getURL", "getJSON", "page"}]],
  effect <- [r \in Reqs |-> [k \in Known(r) |-> IF <<r, k>> \in made THEN 1 ELSE 0]],
  answer <- [r \in Reqs |-> IF status[r] \in {"none", "ok", "refused"} THEN status[r] ELSE "error"]

(* The storage in memory is a MetricStore: step by step, whatever races,      *)
(* panics, is refused or dies with the process.                               *)
StoreSpec == Promise!Spec

(* Once a signal has come the process ends: neither the requests in flight    *)
(* nor the backup goroutine, which never stops, can keep main waiting.        *)
ShutdownEnds == phase = "draining" ~> ~Running

(* If from some time on nothing is in flight, no NaN is in the map and the    *)
(* backup goroutine has not been stopped by an error, the file is again and   *)
(* again a copy of the whole map: what backups taken during updates missed,   *)
(* or left out of step, is repaired without a restart.                        *)
Quiet == phase = "up" /\ InFlight = {} /\ ~HasNaN /\ spc["backup"] # "stopped"

BackupCatchesUp == <>[]Quiet => []<>Saved
=============================================================================
