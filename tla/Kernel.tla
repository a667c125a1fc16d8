--------------------------------- MODULE Kernel ---------------------------------
(******************************************************************************)
(* The life of kernel instances over one project database: creation, which    *)
(* provisions the signing key and mints the API keys, registration with the   *)
(* registry of a process, requests, and disposal (packages/kernel, and        *)
(* AuthService.create() with mintApiKeys() of packages/auth).                 *)
(*                                                                            *)
(* An instance is named by the call of register() that creates it, and so are *)
(* the keys it makes.  The schema is already installed (skipSchemaInstall).   *)
(*                                                                            *)
(* A premise: every statement commits by itself.  On a SQLite connection that *)
(* an instance already serves requests on, a statement of a later creation    *)
(* may go with the ROLLBACK of one (Adapter); this is not in the model.       *)
(******************************************************************************)
EXTENDS Naturals, Sequences, FiniteSets, SequencesExt

CONSTANTS
  Calls,      \* calls of register(), over all processes
  Processes,  \* each has a ProjectRegistry
  MaxBusy     \* bound: requests of an instance in flight

NoCall == "none"

KernelAssumption == NoCall \notin Calls /\ MaxBusy \in Nat

VARIABLES
  signing,  \* signing_keys, ordered by created_at
  apiKeys,  \* api_keys: pairs of a minting call and a type
  call,     \* where each call of register() stands, and its instance
  byRef,    \* each registry's instance of the project
  ending,   \* instances unregister() or disposeAll() is disposing of
  died      \* some creation stopped half-way

kernelVars == <<signing, apiKeys, call, byRef, ending, died>>

KeyTypes == {"publishable", "secret"}

Fresh == [pc |-> "idle", at |-> NoCall, ring |-> <<>>, known |-> {}, busy |-> 0]

KernelInit ==
  /\ signing = <<>> /\ apiKeys = {}
  /\ call = [c \in Calls |-> Fresh]
  /\ byRef = [p \in Processes |-> NoCall]
  /\ ending = {} /\ died = FALSE

InState(c, l) == call[c].pc = l
Reach(c, l)    == call' = [call EXCEPT ![c].pc = l]

\* An instance that accepts requests.
Live(c) == call[c].pc \in {"created", "registered"}

\* activeKeyId: the last active key the ring was given.
Signer(c) == Last(call[c].ring)

--------------------------------------------------------------------------------
(* register(): has() is asked before the creation, set() comes after it.      *)

\* known: whose tokens are in circulation when the creation begins.
Register(c, p) ==
  /\ InState(c, "idle") /\ byRef[p] = NoCall
  /\ call' = [call EXCEPT ![c] = [Fresh EXCEPT !.pc = "keys", !.at = p,
                                    !.known = {Signer(d) : d \in {e \in Calls : Live(e)}}]]
  /\ UNCHANGED <<signing, apiKeys, byRef, ending, died>>

ReadKeys(c) ==
  /\ InState(c, "keys")
  /\ call' = [call EXCEPT ![c].pc = IF signing = <<>> THEN "generate" ELSE "mint",
                          ![c].ring = signing]
  /\ UNCHANGED <<signing, apiKeys, byRef, ending, died>>

\* No key: insert one, and read them all again.
InsertKey(c) ==
  /\ InState(c, "generate")
  /\ signing' = Append(signing, c)
  /\ Reach(c, "keys")
  /\ UNCHANGED <<apiKeys, byRef, ending, died>>

\* mintApiKeys(): the keys of whoever was there before are deleted.
DeleteApiKeys(c) ==
  /\ InState(c, "mint")
  /\ apiKeys' = {} /\ Reach(c, "publishable")
  /\ UNCHANGED <<signing, byRef, ending, died>>

InsertPublishable(c) ==
  /\ InState(c, "publishable")
  /\ apiKeys' = apiKeys \cup {<<c, "publishable">>} /\ Reach(c, "secret")
  /\ UNCHANGED <<signing, byRef, ending, died>>

\* Mutant: the keys of the others are deleted at the end, once the new ones are there.
InsertSecretClear(c) ==
  /\ InState(c, "secret")
  /\ apiKeys' = {k \in apiKeys : k[1] = c} \cup {<<c, "secret">>} /\ Reach(c, "created")
  /\ UNCHANGED <<signing, byRef, ending, died>>

InsertSecret(c) ==
  /\ InState(c, "secret")
  /\ apiKeys' = apiKeys \cup {<<c, "secret">>} /\ Reach(c, "created")
  /\ UNCHANGED <<signing, byRef, ending, died>>

\* byRef.set(): whatever another registration has put there meanwhile is replaced.
SetInstance(c) ==
  /\ InState(c, "created")
  /\ byRef' = [byRef EXCEPT ![call[c].at] = c]
  /\ Reach(c, "registered")
  /\ UNCHANGED <<signing, apiKeys, ending, died>>

\* A statement of the creation fails, or the process dies in it.
CreateFails(c) ==
  /\ call[c].pc \in {"keys", "generate", "mint", "publishable", "secret"}
  /\ Reach(c, "disposed") /\ died' = TRUE
  /\ UNCHANGED <<signing, apiKeys, byRef, ending>>

--------------------------------------------------------------------------------
(* Requests pass the guard while the instance is not disposed.                *)

Request(c) ==
  /\ Live(c) /\ call[c].busy < MaxBusy
  /\ call' = [call EXCEPT ![c].busy = @ + 1]
  /\ UNCHANGED <<signing, apiKeys, byRef, ending, died>>

\* The answer; over a closed adapter it is an error.
AnswerRequest(c) ==
  /\ call[c].busy > 0
  /\ call' = [call EXCEPT ![c].busy = @ - 1]
  /\ UNCHANGED <<signing, apiKeys, byRef, ending, died>>

--------------------------------------------------------------------------------
(* unregister() and disposeAll() look an instance up, await its disposal and  *)
(* then remove what the registry holds by then.                               *)

BeginUnregister(p) ==
  /\ byRef[p] # NoCall
  /\ ending' = ending \cup {<<p, byRef[p]>>}
  /\ UNCHANGED <<signing, apiKeys, call, byRef, died>>

\* dispose(): the adapter closes under the requests in flight.
DisposeInstance(p, c) ==
  /\ <<p, c>> \in ending /\ Live(c)
  /\ Reach(c, "disposed")
  /\ UNCHANGED <<signing, apiKeys, byRef, ending, died>>

EndUnregister(p, c) ==
  /\ <<p, c>> \in ending /\ InState(c, "disposed")
  /\ ending' = ending \ {<<p, c>>}
  /\ byRef' = [byRef EXCEPT ![p] = NoCall]
  /\ UNCHANGED <<signing, apiKeys, call, died>>

--------------------------------------------------------------------------------

KernelNext ==
  \/ \E c \in Calls :
       \/ \E p \in Processes : Register(c, p)
       \/ ReadKeys(c) \/ InsertKey(c)
       \/ DeleteApiKeys(c) \/ InsertPublishable(c) \/ InsertSecret(c)
       \/ SetInstance(c) \/ CreateFails(c)
       \/ Request(c) \/ AnswerRequest(c)
  \/ \E p \in Processes : BeginUnregister(p)
  \/ \E p \in Processes, c \in Calls : DisposeInstance(p, c) \/ EndUnregister(p, c)

KernelSpec == KernelInit /\ [][KernelNext]_kernelVars

--------------------------------------------------------------------------------

\* An instance verifies the access tokens of every instance that was serving when its
\* creation began: rings differ only between creations that met an empty table together.
KeysShared == \A c \in Calls : Live(c) => call[c].known \subseteq Range(call[c].ring)

\* Each creation deletes the API keys of all others.  Once none is under way, and none has
\* stopped half-way, some creation still has both of its keys, so the project can be used.
KeysServe ==
  LET settled == \A c \in Calls : call[c].pc \in {"idle", "created", "registered", "disposed"}
  IN  settled /\ ~died /\ (\E c \in Calls : Live(c)) =>
        \E c \in Calls : {c} \X KeyTypes \subseteq apiKeys

\* A registry hands out no disposed instance, except while an unregistration is under way.
RegistryLive ==
  \A p \in Processes :
    byRef[p] # NoCall => Live(byRef[p]) \/ \E c \in Calls : <<p, c>> \in ending

\* What the users of a project rely on, however many processes create, fail, register and dispose
\* of its instances: the three together (kernel/src/index.ts, AuthService.create, mintApiKeys).
ProjectsServe == KeysShared /\ KeysServe /\ RegistryLive
================================================================================
