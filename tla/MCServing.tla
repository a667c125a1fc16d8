-------------------------------- MODULE MCServing --------------------------------
(******************************************************************************)
(* The machines behind a request, for TLC: the kernel, its accounts and       *)
(* principals, the rate limiter, the adapters of the database and of the      *)
(* blobs, uploads to a store beside its recovery, the Management API, and the *)
(* bridge of the browser.  Each is a machine of its own; a behaviour chooses  *)
(* one of them and runs it, and the others rest in an initial state.          *)
(******************************************************************************)
EXTENDS Accounts, Principals, RateLimit, Adapter, Management, Storage, Kernel, Blobs,
        BrowserBridge, TLC

CONSTANT Pair  \* two actors that are interchangeable: calls, processes

VARIABLE part  \* the machine at work

ASSUME AccountsAssumption /\ PrincipalsAssumption /\ AdapterAssumption /\ ManagementAssumption
ASSUME KernelAssumption /\ BlobsAssumption /\ RateLimitAssumption

--------------------------------------------------------------------------------
ServingInit ==
  /\ part \in {"kernel", "accounts", "principals", "ratelimit", "adapter", "management",
               "storage", "blobs", "bridge"}
  /\ KernelInit /\ AccInit /\ PrincipalsInit /\ RateInit /\ Init /\ BridgeInit
  /\ AdapterInit    /\ (part # "adapter" => kind = "pool")
  /\ ManagementInit /\ (part # "management" => dialect = "d1")
  /\ BlobsInit
  /\ part # "blobs" => adapter = "fs" /\ limit = 0 /\ \A o \in OpIds : body[o] = 0

\* The machines other than one, as they are.
Keep(p) ==
  /\ part = p /\ UNCHANGED part
  /\ IF p = "kernel"     THEN TRUE ELSE UNCHANGED kernelVars
  /\ IF p = "accounts"   THEN TRUE ELSE UNCHANGED accVars
  /\ IF p = "principals" THEN TRUE ELSE UNCHANGED principalVars
  /\ IF p = "ratelimit"  THEN TRUE ELSE UNCHANGED rateVars
  /\ IF p = "adapter"    THEN TRUE ELSE UNCHANGED adapterVars
  /\ IF p = "management" THEN TRUE ELSE UNCHANGED managementVars
  /\ IF p = "storage"    THEN TRUE ELSE UNCHANGED vars
  /\ IF p = "blobs"      THEN TRUE ELSE UNCHANGED blobsVars
  /\ IF p = "bridge"     THEN TRUE ELSE UNCHANGED bridgeVars

ServingNext ==
  \/ Keep("kernel")     /\ KernelNext
  \/ Keep("accounts")   /\ AccNext
  \/ Keep("principals") /\ PrincipalsNext
  \/ Keep("ratelimit")  /\ RateNext
  \/ Keep("adapter")    /\ AdapterNext
  \/ Keep("management") /\ ManagementNext
  \/ Keep("storage")    /\ Next
  \/ Keep("blobs")      /\ BlobsNext
  \/ Keep("bridge")     /\ BridgeNext

Symmetry == Permutations(Pair)
================================================================================
