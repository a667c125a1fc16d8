------------------------------ MODULE BrowserBridge ------------------------------
(******************************************************************************)
(* The bridge between a page and the kernel in its WebWorker                  *)
(* (packages/runtime-browser: client.ts, worker-bridge.ts, protocol.ts):      *)
(* fetch() calls turned into messages, answered in any order.                 *)
(*                                                                            *)
(* Messages arrive in order and once.  A worker that has not called           *)
(* serveInWorker() yet has no listener: what it is sent is lost.              *)
(******************************************************************************)
EXTENDS Naturals, FiniteSets, Sequences

CONSTANTS Fetches  \* calls of fetch()

VARIABLES
  nextId,    \* the next request id
  pending,   \* ids awaited by the page, and the fetch that awaits each
  toWorker,  \* messages on their way to the worker
  toPage,    \* messages on their way to the page
  serving,   \* whether the worker listens
  handling,  \* requests whose handler runs
  ready,     \* whether the page has seen "sk-ready"
  fetches,   \* the local state of each fetch
  disposed   \* whether the page has disposed of the client

bridgeVars == <<nextId, pending, toWorker, toPage, serving, handling, ready, fetches, disposed>>

Unsent == [pc |-> "idle", id |-> 0, early |-> FALSE, got |-> "none", answers |-> 0]

BridgeInit ==
  /\ nextId = 1 /\ pending = [i \in {} |-> "none"] /\ toWorker = <<>> /\ toPage = <<>>
  /\ serving = FALSE /\ handling = {} /\ ready = FALSE /\ disposed = FALSE
  /\ fetches = [f \in Fetches |-> Unsent]

--------------------------------------------------------------------------------
(* The page.                                                                  *)

\* Mutant: the id is the number of calls awaited.
FetchCounting(f) ==
  /\ fetches[f].pc = "idle"
  /\ fetches' = [fetches EXCEPT ![f].pc = "encode", ![f].id = Cardinality(DOMAIN pending) + 1]
  /\ nextId' = nextId + 1
  /\ UNCHANGED <<pending, toWorker, toPage, serving, handling, ready, disposed>>

\* The id is taken before the body is read.
Fetch(f) ==
  /\ fetches[f].pc = "idle"
  /\ fetches' = [fetches EXCEPT ![f].pc = "encode", ![f].id = nextId]
  /\ nextId' = nextId + 1
  /\ UNCHANGED <<pending, toWorker, toPage, serving, handling, ready, disposed>>

\* The body is read, or cannot be.  A worker that is gone takes no message.
EncodeRequest(f) ==
  /\ fetches[f].pc = "encode"
  /\ \/ /\ fetches' = [fetches EXCEPT ![f].pc = "settled", ![f].got = "rejected"]
        /\ UNCHANGED <<pending, toWorker>>
     \/ /\ fetches' = [fetches EXCEPT ![f].pc = "waiting", ![f].early = ~ready]
        /\ pending' = [i \in DOMAIN pending \cup {fetches[f].id} |->
                         IF i = fetches[f].id THEN f ELSE pending[i]]
        /\ toWorker' = IF disposed THEN toWorker
                       ELSE Append(toWorker, [id |-> fetches[f].id, of |-> f])
  /\ UNCHANGED <<nextId, toPage, serving, handling, ready, disposed>>

\* onMessage(): an answer nobody awaits is dropped.
OnMessage ==
  LET m == Head(toPage)
      f == pending[m.id]
      k == [fetches[f] EXCEPT !.pc = "settled", !.got = m.of, !.answers = fetches[f].answers + 1]
  IN  /\ toPage # <<>> /\ ~disposed /\ toPage' = Tail(toPage)
      /\ CASE m.kind = "sk-ready" -> ready' = TRUE /\ UNCHANGED <<pending, fetches>>
           [] m.kind = "sk-response" /\ m.id \in DOMAIN pending ->
                /\ fetches' = [fetches EXCEPT ![f] = k]
                /\ pending' = [i \in DOMAIN pending \ {m.id} |-> pending[i]]
                /\ UNCHANGED ready
           [] OTHER -> UNCHANGED <<ready, pending, fetches>>
      /\ UNCHANGED <<nextId, toWorker, serving, handling, disposed>>

\* The worker is terminated; the calls that wait are not settled.
Dispose ==
  /\ ~disposed /\ disposed' = TRUE
  /\ toWorker' = <<>> /\ toPage' = <<>> /\ handling' = {} /\ serving' = FALSE
  /\ UNCHANGED <<nextId, pending, ready, fetches>>

--------------------------------------------------------------------------------
(* The worker.                                                                *)

ServeInWorker ==
  /\ ~serving /\ ~disposed /\ serving' = TRUE
  /\ toPage' = Append(toPage, [kind |-> "sk-ready", id |-> 0, of |-> "none"])
  /\ UNCHANGED <<nextId, pending, toWorker, handling, ready, fetches, disposed>>

Take ==
  /\ toWorker # <<>> /\ toWorker' = Tail(toWorker)
  /\ handling' = IF serving THEN handling \cup {Head(toWorker)} ELSE handling
  /\ UNCHANGED <<nextId, pending, toPage, serving, ready, fetches, disposed>>

\* The handler answers or throws; either is an answer.
WorkerResponds(r) ==
  /\ r \in handling /\ handling' = handling \ {r}
  /\ toPage' = Append(toPage, [kind |-> "sk-response", id |-> r.id, of |-> r.of])
  /\ UNCHANGED <<nextId, pending, toWorker, serving, ready, fetches, disposed>>

BridgeNext ==
  \/ OnMessage \/ Dispose \/ ServeInWorker \/ Take
  \/ \E f \in Fetches : Fetch(f) \/ EncodeRequest(f)
  \/ \E r \in handling : WorkerResponds(r)

BridgeSpec == BridgeInit /\ [][BridgeNext]_bridgeVars

--------------------------------------------------------------------------------
\* In whatever order handlers finish, a fetch is settled once and with the answer to its own
\* request; and when nothing is under way, no fetch made since the worker reported ready is left
\* without an answer, unless the client was disposed of (client.ts, worker-bridge.ts).
AnsweredOwn ==
  /\ \A f \in Fetches : /\ fetches[f].got \in {"none", "rejected", f}
                        /\ fetches[f].answers <= 1
  /\ toWorker = <<>> /\ toPage = <<>> /\ handling = {} /\ ~disposed =>
       \A f \in Fetches : fetches[f].pc = "waiting" => fetches[f].early
================================================================================
