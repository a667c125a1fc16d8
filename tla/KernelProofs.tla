----------------------------- MODULE KernelProofs ------------------------------
(******************************************************************************)
(* ProjectsServe of Kernel, for any calls, processes and requests in flight,  *)
(* AnsweredOwn of BrowserBridge, for any number of calls of fetch(), and      *)
(* RecordedIffApplied of Management, for any requests and any bound of the    *)
(* clock, on every dialect.                                                   *)
(******************************************************************************)
EXTENDS Kernel, BrowserBridge, Management, Functions, TLAPS

--------------------------------------------------------------------------------
(* The kernel.  A ring holds whatever signed when it was read: it is enough   *)
(* that a ring is never ahead of the table.  Of the API keys the latest       *)
(* deletion decides: whoever deleted last keeps the keys it inserts.  And a   *)
(* registry's instance can be disposed of only by somebody who clears the     *)
(* registry afterwards.                                                       *)

Stages == {"idle", "keys", "generate", "mint", "publishable", "secret", "created", "registered",
           "disposed"}

CallRecords == [pc : Stages, at : Processes \cup {NoCall}, ring : Seq(Calls),
                known : SUBSET Calls, busy : Nat]

KernelType ==
  /\ signing \in Seq(Calls) /\ apiKeys \subseteq Calls \X KeyTypes
  /\ call \in [Calls -> CallRecords]
  /\ byRef \in [Processes -> Calls \cup {NoCall}]
  /\ ending \subseteq Processes \X Calls /\ died \in BOOLEAN

\* What a creation has read of the signing keys, and what it has to be able to verify.
RingInv ==
  \A c \in Calls :
    /\ Range(call[c].ring) \subseteq Range(signing) /\ call[c].known \subseteq Range(signing)
    /\ call[c].pc \in {"mint", "publishable", "secret", "created", "registered"} =>
         call[c].ring # <<>> /\ call[c].known \subseteq Range(call[c].ring)

\* The creation that was the last to delete the API keys has those it has inserted since.
Minted == {"publishable", "secret", "created", "registered", "disposed"}

Keeps(c) ==
  /\ call[c].pc \in Minted
  /\ call[c].pc # "publishable" => <<c, "publishable">> \in apiKeys
  /\ call[c].pc \notin {"publishable", "secret"} => <<c, "secret">> \in apiKeys

KeeperInv == ~died /\ (\E c \in Calls : call[c].pc \in Minted) => \E c \in Calls : Keeps(c)

\* Whom a registry holds was registered there, and is disposed of only by an unregistration.
Placed(c, p) == call[c].pc \in {"registered", "disposed"} /\ call[c].at = p

Ends(p) == \E c \in Calls : <<p, c>> \in ending

RegistryInv ==
  /\ \A c \in Calls : call[c].pc # "idle" => call[c].at \in Processes
  /\ \A p \in Processes, c \in Calls : byRef[p] = c =>
       Placed(c, p) /\ (call[c].pc = "disposed" => Ends(p))
  /\ \A p \in Processes, c \in Calls : <<p, c>> \in ending => Placed(c, p)

KernelInv == KernelType /\ RingInv /\ KeeperInv /\ RegistryInv

--------------------------------------------------------------------------------
LEMMA RangeAppend ==
  ASSUME NEW S, NEW s \in Seq(S), NEW x \in S
  PROVE  /\ Append(s, x) \in Seq(S) /\ Append(s, x) # <<>>
         /\ Range(s) \subseteq Range(Append(s, x))
  BY DEF Range

LEMMA RangeLast ==
  ASSUME NEW S, NEW s \in Seq(S), s # <<>>
  PROVE  Last(s) \in Range(s)
  BY DEF Range, Last

LEMMA RangeIn ==
  ASSUME NEW S, NEW s \in Seq(S)
  PROVE  Range(s) \subseteq S
  BY DEF Range

LEMMA FreshType ==
  /\ Fresh \in CallRecords /\ Fresh.pc = "idle" /\ Fresh.ring = <<>> /\ Fresh.known = {}
  /\ Fresh.at = NoCall /\ Fresh.busy = 0
<1>1. <<>> \in Seq(Calls)
  OBVIOUS
<1> QED
  BY <1>1 DEF CallRecords, Fresh, Stages

LEMMA KernelStarts ==
  ASSUME KernelAssumption, KernelInit
  PROVE  KernelInv
<1>1. KernelType
  <2>1. Fresh \in CallRecords
    BY FreshType
  <2>2. call \in [Calls -> CallRecords]
    BY ONLY <2>1, KernelInit DEF KernelInit
  <2>3. signing \in Seq(Calls) /\ byRef \in [Processes -> Calls \cup {NoCall}]
    BY DEF KernelInit
  <2>4. apiKeys \subseteq Calls \X KeyTypes /\ ending \subseteq Processes \X Calls /\ died \in BOOLEAN
    BY DEF KernelInit
  <2> QED
    BY <2>2, <2>3, <2>4 DEF KernelType
<1>2. RingInv /\ KeeperInv /\ RegistryInv
  <2>1. \A c \in Calls : call[c] = Fresh
    BY DEF KernelInit
  <2>2. \A p \in Processes : byRef[p] \notin Calls
    BY DEF KernelInit, KernelAssumption
  <2> QED
    BY <2>1, <2>2, FreshType DEF KernelInit, RingInv, KeeperInv, RegistryInv, Minted, Range
<1> QED
  BY <1>1, <1>2 DEF KernelInv

\* Only the stage of one call changes.
LEMMA Stepped ==
  ASSUME NEW c \in Calls, NEW l \in Stages, call \in [Calls -> CallRecords], Reach(c, l)
  PROVE  /\ call' \in [Calls -> CallRecords]
         /\ call'[c].pc = l
         /\ \A d \in Calls : /\ d # c => call'[d] = call[d]
                             /\ call'[d].ring = call[d].ring /\ call'[d].known = call[d].known
                             /\ call'[d].at = call[d].at
<1> DEFINE k == [call[c] EXCEPT !.pc = l]
<1>0. call[c] \in CallRecords
  OBVIOUS
<1>1. /\ k \in CallRecords /\ k.pc = l /\ k.ring = call[c].ring
      /\ k.known = call[c].known /\ k.at = call[c].at
  BY ONLY <1>0, l \in Stages DEF CallRecords
<1>2. call' = [call EXCEPT ![c] = k]
  BY DEF Reach
<1> HIDE DEF k
<1> QED
  BY <1>1, <1>2

\* What happens to a call that no registry holds leaves the registries alone.
LEMMA Unregistered ==
  ASSUME KernelInv, NEW c \in Calls, call[c].pc \notin {"registered", "disposed"},
         \A d \in Calls \ {c} : call'[d] = call[d],
         call'[c].at \in Processes, byRef' = byRef, ending' = ending
  PROVE  RegistryInv'
<1>1. \A d \in Calls : call'[d].pc # "idle" => call'[d].at \in Processes
  BY DEF KernelInv, RegistryInv
<1>2. \A p \in Processes, d \in Calls : <<p, d>> \in ending' => Placed(d, p)'
  BY DEF KernelInv, RegistryInv, Placed
<1>3. ASSUME NEW p \in Processes, NEW d \in Calls, byRef'[p] = d
      PROVE  Placed(d, p)' /\ (call'[d].pc = "disposed" => Ends(p)')
  <2>1. Placed(d, p) /\ (call[d].pc = "disposed" => Ends(p))
    BY <1>3 DEF KernelInv, RegistryInv
  <2>2. call'[d] = call[d]
    BY <2>1 DEF Placed
  <2>3. Ends(p)' <=> Ends(p)
    BY DEF Ends
  <2> QED
    BY <2>1, <2>2, <2>3 DEF Placed
<1> QED
  BY <1>1, <1>2, <1>3 DEF RegistryInv

--------------------------------------------------------------------------------
(* A creation.                                                                *)

LEMMA Creating ==
  ASSUME KernelInv, NEW c \in Calls,
         \/ \E p \in Processes : Register(c, p)
         \/ ReadKeys(c) \/ InsertKey(c)
  PROVE  KernelInv'
<1> USE DEF KernelInv, KernelType
<1>1. ASSUME NEW p \in Processes, Register(c, p) PROVE KernelInv'
  <2> DEFINE known == {Signer(d) : d \in {e \in Calls : Live(e)}}
             k == [Fresh EXCEPT !.pc = "keys", !.at = p, !.known = known]
  <2>1. known \subseteq Range(signing) /\ known \subseteq Calls
    <3> SUFFICES ASSUME NEW d \in Calls, Live(d) PROVE Signer(d) \in Range(signing) /\ Signer(d) \in Calls
      OBVIOUS
    <3>1. call[d].ring \in Seq(Calls) /\ call[d].ring # <<>>
      BY DEF Live, RingInv, CallRecords
    <3>2. Signer(d) \in Range(call[d].ring)
      BY <3>1, RangeLast DEF Signer
    <3> QED
      BY <3>1, <3>2, RangeIn DEF RingInv
  <2>2. /\ k \in CallRecords /\ k.pc = "keys" /\ k.at = p /\ k.known = known /\ k.ring = <<>>
    <3>1. <<>> \in Seq(Calls)
      OBVIOUS
    <3> QED
      BY ONLY <2>1, <3>1, p \in Processes DEF CallRecords, Fresh, Stages
  <2>3. call' = [call EXCEPT ![c] = k] /\ call[c].pc = "idle"
    BY <1>1 DEF Register, InState
  <2> HIDE DEF k, known
  <2>4. /\ call' \in [Calls -> CallRecords] /\ call'[c] = k
        /\ \A d \in Calls \ {c} : call'[d] = call[d]
    BY <2>2, <2>3
  <2>5. UNCHANGED <<signing, apiKeys, byRef, ending, died>>
    BY <1>1 DEF Register
  <2>6. RingInv'
    <3>1. Range(<<>>) = {}
      BY DEF Range
    <3> QED
      BY <2>1, <2>2, <2>4, <2>5, <3>1 DEF RingInv
  <2>7. KeeperInv'
    BY <2>2, <2>3, <2>4, <2>5 DEF KeeperInv, Keeps, Minted
  <2>8. RegistryInv'
    BY <2>2, <2>3, <2>4, <2>5, Unregistered
  <2> QED
    BY <2>4, <2>5, <2>6, <2>7, <2>8
<1>2. CASE ReadKeys(c)
  <2> DEFINE l == IF signing = <<>> THEN "generate" ELSE "mint"
             k == [call[c] EXCEPT !.pc = l, !.ring = signing]
  <2>1. /\ k \in CallRecords /\ k.pc = l /\ k.at = call[c].at /\ k.known = call[c].known
        /\ k.ring = signing
    <3>1. call[c] \in CallRecords /\ l \in Stages /\ signing \in Seq(Calls)
      BY DEF Stages
    <3> QED
      BY ONLY <3>1 DEF CallRecords
  <2>2. call' = [call EXCEPT ![c] = k] /\ call[c].pc = "keys"
    BY <1>2 DEF ReadKeys, InState
  <2> HIDE DEF k
  <2>3. /\ call' \in [Calls -> CallRecords] /\ call'[c] = k
        /\ \A d \in Calls \ {c} : call'[d] = call[d]
    BY <2>1, <2>2
  <2>4. UNCHANGED <<signing, apiKeys, byRef, ending, died>>
    BY <1>2 DEF ReadKeys
  <2>5. RingInv'
    BY <2>1, <2>3, <2>4 DEF RingInv
  <2>6. KeeperInv'
    BY <2>1, <2>2, <2>3, <2>4 DEF KeeperInv, Keeps, Minted
  <2>7. RegistryInv'
    BY <2>1, <2>2, <2>3, <2>4, Unregistered DEF RegistryInv
  <2> QED
    BY <2>3, <2>4, <2>5, <2>6, <2>7
<1>3. CASE InsertKey(c)
  <2>1. /\ signing' = Append(signing, c) /\ Reach(c, "keys") /\ call[c].pc = "generate"
        /\ UNCHANGED <<apiKeys, byRef, ending, died>>
    BY <1>3 DEF InsertKey, InState
  <2>2. signing' \in Seq(Calls) /\ Range(signing) \subseteq Range(signing')
    BY <2>1, RangeAppend
  <2>3. RingInv'
    BY <2>1, <2>2, Stepped DEF RingInv, Stages
  <2>4. KeeperInv'
    BY <2>1, Stepped DEF KeeperInv, Keeps, Minted, Stages
  <2>5. RegistryInv'
    BY <2>1, Stepped, Unregistered DEF RegistryInv, Stages
  <2> QED
    BY <2>1, <2>2, <2>3, <2>4, <2>5, Stepped DEF Stages
<1> QED
  BY <1>1, <1>2, <1>3

LEMMA Minting ==
  ASSUME KernelInv, NEW c \in Calls,
         \/ DeleteApiKeys(c) \/ InsertPublishable(c) \/ InsertSecret(c)
         \/ SetInstance(c) \/ CreateFails(c)
  PROVE  KernelInv'
<1> USE DEF KernelInv, KernelType
<1>1. CASE DeleteApiKeys(c)
  <2>1. /\ apiKeys' = {} /\ Reach(c, "publishable") /\ call[c].pc = "mint"
        /\ UNCHANGED <<signing, byRef, ending, died>>
    BY <1>1 DEF DeleteApiKeys, InState
  <2>2. RingInv'
    BY <2>1, Stepped DEF RingInv, Stages
  <2>4. RegistryInv'
    BY <2>1, Stepped, Unregistered DEF RegistryInv, Stages
  <2>3. Keeps(c)'
    BY <2>1, Stepped DEF Keeps, Minted, Stages
  <2> QED
    BY <2>1, <2>2, <2>3, <2>4, Stepped DEF KeeperInv, Stages
<1>2. CASE InsertPublishable(c)
  <2>1. /\ apiKeys' = apiKeys \cup {<<c, "publishable">>} /\ Reach(c, "secret")
        /\ call[c].pc = "publishable" /\ UNCHANGED <<signing, byRef, ending, died>>
    BY <1>2 DEF InsertPublishable, InState
  <2>2. RingInv'
    BY <2>1, Stepped DEF RingInv, Stages
  <2>4. RegistryInv'
    BY <2>1, Stepped, Unregistered DEF RegistryInv, Stages
  <2>3. KeeperInv'
    BY <2>1, Stepped DEF KeeperInv, Keeps, Minted, Stages
  <2> QED
    BY <2>1, <2>2, <2>3, <2>4, Stepped DEF KeyTypes, Stages
<1>3. CASE InsertSecret(c)
  <2>1. /\ apiKeys' = apiKeys \cup {<<c, "secret">>} /\ Reach(c, "created")
        /\ call[c].pc = "secret" /\ UNCHANGED <<signing, byRef, ending, died>>
    BY <1>3 DEF InsertSecret, InState
  <2>2. RingInv'
    BY <2>1, Stepped DEF RingInv, Stages
  <2>4. RegistryInv'
    BY <2>1, Stepped, Unregistered DEF RegistryInv, Stages
  <2>3. KeeperInv'
    BY <2>1, Stepped DEF KeeperInv, Keeps, Minted, Stages
  <2> QED
    BY <2>1, <2>2, <2>3, <2>4, Stepped DEF KeyTypes, Stages
<1>4. CASE SetInstance(c)
  <2>1. /\ byRef' = [byRef EXCEPT ![call[c].at] = c] /\ Reach(c, "registered")
        /\ call[c].pc = "created" /\ UNCHANGED <<signing, apiKeys, ending, died>>
    BY <1>4 DEF SetInstance, InState
  <2>2. RingInv'
    BY <2>1, Stepped DEF RingInv, Stages
  <2>5. KeeperInv'
    BY <2>1, Stepped DEF KeeperInv, Keeps, Minted, Stages
  <2>3. call[c].at \in Processes
    BY <2>1 DEF RegistryInv, Placed, Ends
  <2>4. RegistryInv'
    <3>1. \A d \in Calls \ {c} : call'[d] = call[d]
      BY <2>1, Stepped DEF Stages
    <3>2. call'[c].pc = "registered" /\ call'[c].at = call[c].at
      BY <2>1, Stepped DEF Stages
    <3>3. \A p \in Processes : Ends(p)' <=> Ends(p)
      BY <2>1 DEF Ends
    <3>4. \A p \in Processes : <<p, c>> \notin ending /\ byRef[p] # c
      BY <2>1 DEF RegistryInv, Placed
    <3>5. \A d \in Calls : call'[d].pc # "idle" => call'[d].at \in Processes
      BY <2>3, <3>1, <3>2 DEF RegistryInv
    <3>6. \A p \in Processes, d \in Calls : <<p, d>> \in ending' => Placed(d, p)'
      BY <2>1, <3>1, <3>4 DEF RegistryInv, Placed
    <3>7. ASSUME NEW p \in Processes, NEW d \in Calls, byRef'[p] = d
          PROVE  Placed(d, p)' /\ (call'[d].pc = "disposed" => Ends(p)')
      <4>1. CASE d = c
        BY <2>1, <2>3, <3>2, <3>4, <3>7, <4>1 DEF Placed
      <4>2. CASE d # c
        <5>1. byRef[p] = d /\ call'[d] = call[d]
          BY <2>1, <2>3, <3>1, <3>7, <4>2
        <5>2. Placed(d, p) /\ (call[d].pc = "disposed" => Ends(p))
          BY <5>1 DEF RegistryInv
        <5> QED
          BY <3>3, <5>1, <5>2 DEF Placed
      <4> QED
        BY <4>1, <4>2
    <3> QED
      BY <3>5, <3>6, <3>7 DEF RegistryInv
  <2> QED
    BY <2>1, <2>2, <2>4, <2>5, Stepped DEF Stages
<1>5. CASE CreateFails(c)
  <2>1. /\ call[c].pc \in {"keys", "generate", "mint", "publishable", "secret"}
        /\ Reach(c, "disposed") /\ died' = TRUE
        /\ UNCHANGED <<signing, apiKeys, byRef, ending>>
    BY <1>5 DEF CreateFails
  <2>2. RingInv' /\ KeeperInv'
    BY <2>1, Stepped DEF RingInv, KeeperInv, Stages
  <2>3. RegistryInv'
    BY <2>1, Stepped, Unregistered DEF RegistryInv, Stages
  <2> QED
    BY <2>1, <2>2, <2>3, Stepped DEF Stages
<1> QED
  BY <1>1, <1>2, <1>3, <1>4, <1>5

--------------------------------------------------------------------------------
(* Requests, and the end of an instance.                                      *)

LEMMA Busy ==
  ASSUME KernelInv, NEW c \in Calls, Request(c) \/ AnswerRequest(c)
  PROVE  KernelInv'
<1> USE DEF KernelInv, KernelType
<1>0. call[c] \in CallRecords /\ call[c].busy \in Nat
  BY DEF CallRecords
<1>1. PICK n \in Nat : call' = [call EXCEPT ![c].busy = n]
  <2>1. CASE Request(c)
    <3>1. call[c].busy + 1 \in Nat
      BY <1>0
    <3> QED
      BY <2>1, <3>1 DEF Request
  <2>2. CASE AnswerRequest(c)
    <3>1. call[c].busy - 1 \in Nat
      BY <1>0, <2>2 DEF AnswerRequest
    <3> QED
      BY <2>2, <3>1 DEF AnswerRequest
  <2> QED
    BY <2>1, <2>2
<1>2. /\ call' \in [Calls -> CallRecords]
      /\ \A d \in Calls : /\ call'[d].pc = call[d].pc /\ call'[d].ring = call[d].ring
                          /\ call'[d].known = call[d].known /\ call'[d].at = call[d].at
  <2> DEFINE k == [call[c] EXCEPT !.busy = n]
  <2>1. /\ k \in CallRecords /\ k.pc = call[c].pc /\ k.ring = call[c].ring
        /\ k.known = call[c].known /\ k.at = call[c].at
    BY ONLY <1>0, n \in Nat DEF CallRecords
  <2>2. call' = [call EXCEPT ![c] = k]
    BY <1>1
  <2> HIDE DEF k
  <2> QED
    BY <2>1, <2>2
<1>3. UNCHANGED <<signing, apiKeys, byRef, ending, died>>
  BY DEF Request, AnswerRequest
<1>4. RingInv'
  BY <1>2, <1>3 DEF RingInv
<1>5. KeeperInv'
  BY <1>2, <1>3 DEF KeeperInv, Keeps
<1>6. RegistryInv'
  <2>1. \A p \in Processes : Ends(p)' <=> Ends(p)
    BY <1>3 DEF Ends
  <2>2. \A p \in Processes, d \in Calls : Placed(d, p)' <=> Placed(d, p)
    BY <1>2 DEF Placed
  <2> QED
    BY <1>2, <1>3, <2>1, <2>2 DEF RegistryInv
<1> QED
  BY <1>2, <1>3, <1>4, <1>5, <1>6

LEMMA Ending ==
  ASSUME KernelAssumption, KernelInv, NEW p \in Processes,
         BeginUnregister(p) \/ \E c \in Calls : DisposeInstance(p, c) \/ EndUnregister(p, c)
  PROVE  KernelInv'
<1> USE DEF KernelInv, KernelType
<1>1. CASE BeginUnregister(p)
  <2>1. /\ byRef[p] \in Calls /\ ending' = ending \cup {<<p, byRef[p]>>}
        /\ UNCHANGED <<signing, apiKeys, call, byRef, died>>
    BY <1>1 DEF BeginUnregister
  <2>2. RingInv' /\ KeeperInv'
    BY <2>1 DEF RingInv, KeeperInv, Keeps
  <2>3. RegistryInv'
    <3>1. \A q \in Processes : Ends(q) => Ends(q)'
      BY <2>1 DEF Ends
    <3>2. \A q \in Processes, d \in Calls : Placed(d, q)' <=> Placed(d, q)
      BY <2>1 DEF Placed
    <3>3. Placed(byRef[p], p)
      BY <2>1 DEF RegistryInv
    <3> QED
      BY <2>1, <3>1, <3>2, <3>3 DEF RegistryInv
  <2> QED
    BY <2>1, <2>2, <2>3
<1>2. ASSUME NEW c \in Calls, DisposeInstance(p, c) PROVE KernelInv'
  <2>1. /\ <<p, c>> \in ending /\ Live(c) /\ Reach(c, "disposed")
        /\ UNCHANGED <<signing, apiKeys, byRef, ending, died>>
    BY <1>2 DEF DisposeInstance
  <2>2. RingInv'
    BY <2>1, Stepped DEF RingInv, Stages
  <2>3. KeeperInv'
    BY <2>1, Stepped DEF KeeperInv, Keeps, Minted, Live, Stages
  <2>4. RegistryInv'
    <3>1. \A d \in Calls \ {c} : call'[d] = call[d]
      BY <2>1, Stepped DEF Stages
    <3>2. call'[c].pc = "disposed" /\ call'[c].at = call[c].at
      BY <2>1, Stepped DEF Stages
    <3>3. \A q \in Processes : Ends(q)' <=> Ends(q)
      BY <2>1 DEF Ends
    <3>4. Placed(c, p) /\ Ends(p)
      BY <2>1 DEF RegistryInv, Ends
    <3>5. \A d \in Calls, q \in Processes : Placed(d, q)' <=> Placed(d, q)
      BY <3>1, <3>2, <3>4 DEF Placed
    <3>6. \A d \in Calls : call'[d].pc # "idle" => call'[d].at \in Processes
      BY <3>1, <3>2, <3>4 DEF RegistryInv, Placed
    <3>7. \A q \in Processes : byRef[q] = c => Ends(q)
      BY <3>4 DEF RegistryInv, Placed
    <3>8. \A q \in Processes, d \in Calls : byRef[q] = d =>
            (call'[d].pc = "disposed" => Ends(q))
      BY <3>1, <3>7 DEF RegistryInv
    <3> QED
      BY <2>1, <3>3, <3>5, <3>6, <3>8 DEF RegistryInv
  <2> QED
    BY <2>1, <2>2, <2>3, <2>4, Stepped DEF Stages
<1>3. ASSUME NEW c \in Calls, EndUnregister(p, c) PROVE KernelInv'
  <2>1. /\ ending' = ending \ {<<p, c>>} /\ byRef' = [byRef EXCEPT ![p] = NoCall]
        /\ UNCHANGED <<signing, apiKeys, call, died>>
    BY <1>3 DEF EndUnregister
  <2>2. RingInv' /\ KeeperInv'
    BY <2>1 DEF RingInv, KeeperInv, Keeps
  <2>3. RegistryInv'
    <3>1. \A q \in Processes \ {p} : Ends(q) => Ends(q)'
      BY <2>1 DEF Ends
    <3>2. \A q \in Processes, d \in Calls : Placed(d, q)' <=> Placed(d, q)
      BY <2>1 DEF Placed
    <3>3. byRef'[p] \notin Calls /\ \A q \in Processes \ {p} : byRef'[q] = byRef[q]
      BY <2>1 DEF KernelAssumption
    <3> QED
      BY <2>1, <3>1, <3>2, <3>3 DEF RegistryInv
  <2> QED
    BY <2>1, <2>2, <2>3
<1> QED
  BY <1>1, <1>2, <1>3

LEMMA KernelSteps ==
  ASSUME KernelAssumption, KernelInv, [KernelNext]_kernelVars
  PROVE  KernelInv'
<1>1. CASE UNCHANGED kernelVars
  BY <1>1 DEF kernelVars, KernelInv, KernelType, RingInv, KeeperInv, Keeps, RegistryInv, Placed,
               Ends
<1> QED
  BY <1>1, Creating, Minting, Busy, Ending DEF KernelNext

\* For every number of creations, processes and requests, on one database: whoever is live can
\* verify the tokens in circulation when its creation began; once creations have settled and none
\* has failed half-way, some creation has both of its API keys; no registry hands out a disposed
\* instance but during an unregistration (kernel/src/index.ts, AuthService.create, mintApiKeys).
THEOREM KernelProjectsServe == KernelAssumption => (KernelSpec => []ProjectsServe)
<1> SUFFICES ASSUME KernelAssumption PROVE KernelSpec => []ProjectsServe
  OBVIOUS
<1>1. KernelInv => ProjectsServe
  <2> SUFFICES ASSUME KernelInv PROVE KeysShared /\ KeysServe /\ RegistryLive
    BY DEF ProjectsServe
  <2>1. KeysShared
    BY DEF KernelInv, RingInv, KeysShared, Live
  <2>2. KeysServe
    <3> SUFFICES ASSUME \A c \in Calls : call[c].pc \in {"idle", "created", "registered", "disposed"},
                        ~died, NEW d \in Calls, Live(d)
                 PROVE  \E c \in Calls : {c} \X KeyTypes \subseteq apiKeys
      BY DEF KeysServe
    <3>1. PICK c \in Calls : Keeps(c)
      BY DEF KernelInv, KeeperInv, Minted, Live
    <3>2. <<c, "publishable">> \in apiKeys /\ <<c, "secret">> \in apiKeys
      BY <3>1 DEF Keeps, Minted
    <3> QED
      BY <3>2 DEF KeyTypes
  <2>3. RegistryLive
    <3> SUFFICES ASSUME NEW p \in Processes, byRef[p] # NoCall, ~Live(byRef[p])
                 PROVE  \E c \in Calls : <<p, c>> \in ending
      BY DEF RegistryLive
    <3>1. byRef[p] \in Calls
      BY DEF KernelInv, KernelType
    <3>2. Placed(byRef[p], p) /\ (call[byRef[p]].pc = "disposed" => Ends(p))
      BY <3>1 DEF KernelInv, RegistryInv
    <3> QED
      BY <3>2 DEF Placed, Ends, Live
  <2> QED
    BY <2>1, <2>2, <2>3
<1> QED
  BY <1>1, KernelStarts, KernelSteps, PTL DEF KernelSpec

--------------------------------------------------------------------------------
(* The bridge.  Ids are never used twice, so a message that carries the id of *)
(* a fetch is that fetch's own; and once the page has seen "sk-ready", what   *)
(* it sends stays somewhere on the way until its answer is taken.             *)

FetchRecords == [pc : {"idle", "encode", "waiting", "settled"}, id : Nat, early : BOOLEAN,
                 got : {"none", "rejected"} \cup Fetches, answers : Nat]

Sent     == [id : Nat, of : Fetches]
AnswersSent  == [kind : {"sk-response"}, id : Nat, of : Fetches]
ReadyMsg == [kind |-> "sk-ready", id |-> 0, of |-> "none"]

BridgeType ==
  /\ nextId \in Nat
  /\ toWorker \in Seq(Sent) /\ handling \subseteq Sent /\ toPage \in Seq(AnswersSent \cup {ReadyMsg})
  /\ serving \in BOOLEAN /\ ready \in BOOLEAN /\ disposed \in BOOLEAN
  /\ fetches \in [Fetches -> FetchRecords]

\* Each call of fetch() has an id of its own, and is settled by at most one answer, its own.
FetchOf(f) ==
  /\ fetches[f].pc # "idle" => fetches[f].id < nextId
  /\ fetches[f].got \in {"none", "rejected", f}
  /\ fetches[f].answers = 0 \/ (fetches[f].pc = "settled" /\ fetches[f].answers = 1)

IdInv ==
  \A f, g \in Fetches : fetches[f].pc # "idle" /\ fetches[g].pc # "idle" /\ f # g =>
                          fetches[f].id # fetches[g].id

\* The ids awaited are those of the fetches that wait.
PendingInv ==
  /\ \A i \in DOMAIN pending : /\ pending[i] \in Fetches /\ fetches[pending[i]].pc = "waiting"
                               /\ fetches[pending[i]].id = i
  /\ \A f \in Fetches : fetches[f].pc = "waiting" => fetches[f].id \in DOMAIN pending

\* A message, on its way in either direction, is that of the fetch it names.
Own(m) == fetches[m.of].pc \in {"waiting", "settled"} /\ fetches[m.of].id = m.id

OwnInv ==
  /\ \A m \in Range(toWorker) \cup handling : Own(m)
  /\ \A m \in Range(toPage) : m # ReadyMsg => Own(m)

\* A worker that has reported ready listens until the page disposes of it.
ListensInv == ready \/ ReadyMsg \in Range(toPage) => serving \/ disposed

RequestOf(f) == [id |-> fetches[f].id, of |-> f]
ReplyOf(f)   == [kind |-> "sk-response", id |-> fetches[f].id, of |-> f]

OnTheWay(f) == RequestOf(f) \in Range(toWorker) \/ RequestOf(f) \in handling \/ ReplyOf(f) \in Range(toPage)

AnswerInv ==
  \A f \in Fetches :
    fetches[f].pc = "waiting" /\ ~fetches[f].early /\ ~disposed => serving /\ OnTheWay(f)

BridgeInv ==
  /\ BridgeType /\ (\A f \in Fetches : FetchOf(f))
  /\ IdInv /\ PendingInv /\ OwnInv /\ ListensInv /\ AnswerInv

--------------------------------------------------------------------------------
LEMMA RangeAll ==
  ASSUME NEW S, NEW s \in Seq(S)
  PROVE  /\ Range(s) \subseteq S
         /\ \A x \in S : Append(s, x) \in Seq(S) /\ Range(Append(s, x)) = Range(s) \cup {x}
         /\ s # <<>> => /\ Head(s) \in S /\ Tail(s) \in Seq(S)
                        /\ Range(s) = {Head(s)} \cup Range(Tail(s))
<1>1. Range(s) \subseteq S
  BY DEF Range
<1>2. ASSUME NEW x \in S PROVE Append(s, x) \in Seq(S) /\ Range(Append(s, x)) = Range(s) \cup {x}
  <2>1. /\ Append(s, x) \in Seq(S) /\ DOMAIN Append(s, x) = DOMAIN s \cup {Len(s) + 1}
        /\ Append(s, x)[Len(s) + 1] = x /\ \A i \in DOMAIN s : Append(s, x)[i] = s[i]
    OBVIOUS
  <2> QED
    BY <2>1 DEF Range
<1>3. ASSUME s # <<>>
      PROVE  Head(s) \in S /\ Tail(s) \in Seq(S) /\ Range(s) = {Head(s)} \cup Range(Tail(s))
  <2>1. Head(s) \in S /\ Tail(s) \in Seq(S) /\ Head(s) = s[1] /\ Len(s) >= 1
    BY <1>3
  <2>2. ASSUME NEW i \in DOMAIN s, i # 1 PROVE i - 1 \in DOMAIN Tail(s) /\ Tail(s)[i - 1] = s[i]
    BY <1>3, <2>2
  <2>3. ASSUME NEW i \in DOMAIN Tail(s) PROVE i + 1 \in DOMAIN s /\ Tail(s)[i] = s[i + 1]
    BY <1>3, <2>3
  <2>4. 1 \in DOMAIN s
    BY <2>1
  <2>5. Range(s) \subseteq {Head(s)} \cup Range(Tail(s))
    BY <2>1, <2>2 DEF Range
  <2>6. {Head(s)} \cup Range(Tail(s)) \subseteq Range(s)
    BY <2>1, <2>3, <2>4 DEF Range
  <2> QED
    BY <2>1, <2>5, <2>6
<1> QED
  BY <1>1, <1>2, <1>3

LEMMA RangeNone == Range(<<>>) = {}
  BY DEF Range

LEMMA BridgeStarts == BridgeInit => BridgeInv
<1> SUFFICES ASSUME BridgeInit PROVE BridgeInv
  OBVIOUS
<1>1. Unsent \in FetchRecords
  BY DEF Unsent, FetchRecords
<1>2. fetches \in [Fetches -> FetchRecords] /\ \A f \in Fetches : fetches[f] = Unsent
  BY <1>1 DEF BridgeInit
<1>3. BridgeType
  <2>1. \A S : <<>> \in Seq(S)
    OBVIOUS
  <2>2. nextId \in Nat /\ toWorker = <<>> /\ toPage = <<>> /\ handling = {}
    BY DEF BridgeInit
  <2>3. serving \in BOOLEAN /\ ready \in BOOLEAN /\ disposed \in BOOLEAN
    BY DEF BridgeInit
  <2> QED
    BY <1>2, <2>1, <2>2, <2>3 DEF BridgeType
<1>4. Range(toWorker) = {} /\ Range(toPage) = {} /\ handling = {} /\ DOMAIN pending = {}
  BY RangeNone DEF BridgeInit
<1> QED
  BY <1>2, <1>3, <1>4 DEF BridgeInit, BridgeInv, FetchOf, IdInv, PendingInv, OwnInv, ListensInv, AnswerInv, Unsent

LEMMA Messages ==
  ASSUME BridgeType
  PROVE  /\ \A m \in Range(toWorker) \cup handling : m \in Sent /\ m.of \in Fetches /\ m.id \in Nat
         /\ \A m \in Range(toPage) : m # ReadyMsg => /\ m.kind = "sk-response" /\ m.of \in Fetches
                                                     /\ m.id \in Nat /\ m \in AnswersSent
<1>1. Range(toWorker) \subseteq Sent /\ Range(toPage) \subseteq AnswersSent \cup {ReadyMsg}
  BY RangeAll DEF BridgeType
<1>2. handling \subseteq Sent
  BY DEF BridgeType
<1> QED
  BY <1>1, <1>2 DEF Sent, AnswersSent

\* A call of fetch() takes the next id.
LEMMA FetchKeeps ==
  ASSUME BridgeInv, NEW f \in Fetches, Fetch(f)
  PROVE  BridgeInv'
<1> USE DEF BridgeInv
<1> DEFINE k == [fetches[f] EXCEPT !.pc = "encode", !.id = nextId]
<1>1. /\ k \in FetchRecords /\ k.pc = "encode" /\ k.id = nextId /\ k.got = fetches[f].got
      /\ k.answers = fetches[f].answers
  <2>1. fetches[f] \in FetchRecords /\ nextId \in Nat
    BY DEF BridgeType
  <2> QED
    BY ONLY <2>1 DEF FetchRecords
<1>2. fetches' = [fetches EXCEPT ![f] = k] /\ fetches[f].pc = "idle" /\ nextId' = nextId + 1
  BY DEF Fetch
<1> HIDE DEF k
<1>3. /\ fetches' \in [Fetches -> FetchRecords] /\ fetches'[f] = k
      /\ \A g \in Fetches \ {f} : fetches'[g] = fetches[g]
  BY <1>1, <1>2 DEF BridgeType
<1>4. UNCHANGED <<pending, toWorker, toPage, serving, handling, ready, disposed>>
  BY DEF Fetch
<1>5. BridgeType'
  BY <1>2, <1>3, <1>4 DEF BridgeType
<1>6. \A g \in Fetches : FetchOf(g)'
  <2>1. nextId \in Nat /\ \A g \in Fetches : fetches[g].id \in Nat /\ FetchOf(g)
    BY DEF BridgeType, FetchRecords
  <2> QED
    BY <1>1, <1>2, <1>3, <2>1 DEF FetchOf
<1>7. IdInv'
  <2>1. nextId \in Nat /\ \A g \in Fetches : fetches[g].pc # "idle" => fetches[g].id # nextId
    BY DEF BridgeType, FetchRecords, FetchOf
  <2> QED
    BY <1>1, <1>3, <2>1 DEF IdInv
<1>8. PendingInv'
  BY <1>1, <1>2, <1>3, <1>4 DEF PendingInv
<1>9. OwnInv'
  <2>1. \A m : Own(m) /\ m.of \in Fetches => Own(m)'
    BY <1>2, <1>3 DEF Own
  <2> QED
    BY <1>4, <2>1, Messages DEF OwnInv
<1>10. ListensInv' /\ AnswerInv'
  <2>1. \A g \in Fetches \ {f} : OnTheWay(g)' <=> OnTheWay(g)
    BY <1>3, <1>4 DEF OnTheWay, RequestOf, ReplyOf
  <2> QED
    BY <1>1, <1>3, <1>4, <2>1 DEF ListensInv, AnswerInv
<1> QED
  BY <1>5, <1>6, <1>7, <1>8, <1>9, <1>10

LEMMA EncodeKeeps ==
  ASSUME BridgeInv, NEW f \in Fetches, EncodeRequest(f)
  PROVE  BridgeInv'
<1> USE DEF BridgeInv
<1> DEFINE settled == [fetches[f] EXCEPT !.pc = "settled", !.got = "rejected"]
           waiting == [fetches[f] EXCEPT !.pc = "waiting", !.early = ~ready]
           m == [id |-> fetches[f].id, of |-> f]
<1>1. fetches[f] \in FetchRecords /\ ready \in BOOLEAN /\ fetches[f].id \in Nat /\ nextId \in Nat
  BY DEF BridgeType, FetchRecords
<1>2. /\ settled \in FetchRecords /\ settled.pc = "settled" /\ settled.got = "rejected"
      /\ settled.id = fetches[f].id /\ settled.answers = fetches[f].answers
  BY ONLY <1>1 DEF FetchRecords
<1>3. /\ waiting \in FetchRecords /\ waiting.pc = "waiting" /\ waiting.got = fetches[f].got
      /\ waiting.id = fetches[f].id /\ waiting.answers = fetches[f].answers
      /\ waiting.early = ~ready
  BY ONLY <1>1 DEF FetchRecords
<1>4. m \in Sent /\ m.id = fetches[f].id /\ m.of = f /\ m = RequestOf(f)
  BY <1>1 DEF Sent, RequestOf
<1>5. PICK k \in {settled, waiting} :
        /\ fetches' = [fetches EXCEPT ![f] = k] /\ fetches[f].pc = "encode"
        /\ UNCHANGED <<nextId, toPage, serving, handling, ready, disposed>>
        /\ k = settled => UNCHANGED <<pending, toWorker>>
        /\ k = waiting => /\ DOMAIN pending' = DOMAIN pending \cup {fetches[f].id}
                          /\ pending'[fetches[f].id] = f
                          /\ \A i \in DOMAIN pending \ {fetches[f].id} : pending'[i] = pending[i]
                          /\ toWorker' = IF disposed THEN toWorker ELSE Append(toWorker, m)
  BY <1>2, <1>3 DEF EncodeRequest
<1>6. /\ k \in FetchRecords /\ k.id = fetches[f].id /\ k.answers = fetches[f].answers
      /\ k.pc \in {"settled", "waiting"} /\ k.got \in {"rejected", fetches[f].got}
      /\ k.pc = "waiting" => k = waiting /\ k.early = ~ready
      /\ k.pc = "settled" => k = settled
  BY <1>2, <1>3
<1> HIDE DEF settled, waiting, m
<1>7. /\ fetches' \in [Fetches -> FetchRecords] /\ fetches'[f] = k
      /\ \A g \in Fetches \ {f} : fetches'[g] = fetches[g]
  BY <1>5, <1>6 DEF BridgeType
<1>8. /\ toWorker' \in Seq(Sent) /\ Range(toWorker) \subseteq Range(toWorker')
      /\ Range(toWorker') \subseteq Range(toWorker) \cup {m}
      /\ k = waiting /\ ~disposed => m \in Range(toWorker')
      /\ k = settled => toWorker' = toWorker
  <2>1. toWorker \in Seq(Sent)
    BY DEF BridgeType
  <2>2. Append(toWorker, m) \in Seq(Sent) /\ Range(Append(toWorker, m)) = Range(toWorker) \cup {m}
    BY <2>1, <1>4, RangeAll
  <2> QED
    BY <1>5, <2>1, <2>2
<1>9. BridgeType'
  BY <1>5, <1>7, <1>8 DEF BridgeType
<1>10. \A g \in Fetches : FetchOf(g)'
  <2>1. FetchOf(f)'
    <3>1. FetchOf(f)
      OBVIOUS
    <3> QED
      BY <1>5, <1>6, <1>7, <3>1 DEF FetchOf
  <2>2. ASSUME NEW g \in Fetches \ {f} PROVE FetchOf(g)'
    BY <1>5, <1>7 DEF FetchOf
  <2> QED
    BY <2>1, <2>2
<1>11. IdInv'
  BY <1>5, <1>6, <1>7 DEF IdInv
<1>12. PendingInv'
  <2>1. ASSUME NEW i \in DOMAIN pending
        PROVE  /\ i # fetches[f].id /\ pending[i] \in Fetches \ {f}
               /\ fetches'[pending[i]] = fetches[pending[i]]
    BY <1>5, <1>7 DEF PendingInv, IdInv
  <2>2. CASE k = settled
    BY <1>5, <1>6, <1>7, <2>1, <2>2, <1>2 DEF PendingInv, settled
  <2>3. CASE k = waiting
    BY <1>5, <1>6, <1>7, <2>1, <2>3 DEF PendingInv
  <2> QED
    BY <2>2, <2>3
<1>13. OwnInv'
  <2>1. \A x : Own(x) /\ x.of \in Fetches => Own(x)'
    BY <1>5, <1>6, <1>7 DEF Own
  <2>2. \A x : k = waiting /\ x = m => Own(x)'
    BY <1>3, <1>4, <1>6, <1>7 DEF Own
  <2>3. \A x \in Range(toWorker') \cup handling' : Own(x)'
    BY <1>5, <1>8, <2>1, <2>2, Messages DEF OwnInv
  <2>4. \A x \in Range(toPage') : x # ReadyMsg => Own(x)'
    BY <1>5, <2>1, Messages DEF OwnInv
  <2> QED
    BY <2>3, <2>4 DEF OwnInv
<1>14. ListensInv' /\ AnswerInv'
  <2>1. \A g \in Fetches : OnTheWay(g) => OnTheWay(g)'
    BY <1>5, <1>6, <1>7, <1>8 DEF OnTheWay, RequestOf, ReplyOf
  <2>2. ListensInv'
    BY <1>5 DEF ListensInv
  <2>3. ASSUME k.pc = "waiting", ~k.early, ~disposed PROVE serving /\ OnTheWay(f)'
    <3>1. ready /\ serving
      BY <1>6, <2>3 DEF ListensInv
    <3>2. m \in Range(toWorker') /\ RequestOf(f)' = m
      BY <1>4, <1>6, <1>7, <1>8, <2>3 DEF RequestOf
    <3> QED
      BY <3>1, <3>2 DEF OnTheWay
  <2>4. AnswerInv'
    BY <1>5, <1>7, <2>1, <2>3 DEF AnswerInv
  <2> QED
    BY <2>2, <2>4
<1> QED
  BY <1>9, <1>10, <1>11, <1>12, <1>13, <1>14

LEMMA Settled ==
  ASSUME NEW x \in FetchRecords, x.answers = 0, NEW f \in Fetches
  PROVE  LET k == [x EXCEPT !.pc = "settled", !.got = f, !.answers = x.answers + 1]
         IN  /\ k \in FetchRecords /\ k.pc = "settled" /\ k.got = f /\ k.answers = 1 /\ k.id = x.id
<1> DEFINE n == x.answers + 1
<1>1. n \in Nat /\ n = 1
  OBVIOUS
<1> HIDE DEF n
<1>2. LET k == [x EXCEPT !.pc = "settled", !.got = f, !.answers = n]
      IN  /\ k \in FetchRecords /\ k.pc = "settled" /\ k.got = f /\ k.answers = 1 /\ k.id = x.id
  BY <1>1 DEF FetchRecords
<1> QED
  BY <1>2 DEF n

LEMMA OnMessageKeeps ==
  ASSUME BridgeInv, OnMessage
  PROVE  BridgeInv'
<1> USE DEF BridgeInv
<1> DEFINE m == Head(toPage)
<1>1. /\ toPage # <<>> /\ ~disposed /\ toPage' = Tail(toPage)
      /\ UNCHANGED <<nextId, toWorker, serving, handling, disposed>>
  BY DEF OnMessage
<1>2. /\ toPage' \in Seq(AnswersSent \cup {ReadyMsg}) /\ m \in AnswersSent \cup {ReadyMsg}
      /\ Range(toPage) = {m} \cup Range(toPage')
  <2>1. toPage \in Seq(AnswersSent \cup {ReadyMsg})
    BY DEF BridgeType
  <2> QED
    BY <1>1, <2>1, RangeAll
<1>3. CASE m = ReadyMsg
  <2>1. ready' = TRUE /\ UNCHANGED <<pending, fetches>>
    BY <1>3 DEF OnMessage, ReadyMsg
  <2>2. serving
    BY <1>1, <1>2, <1>3 DEF ListensInv
  <2>3. \A f \in Fetches : OnTheWay(f) => OnTheWay(f)'
    BY <1>1, <1>2, <1>3, <2>1 DEF OnTheWay, RequestOf, ReplyOf, ReadyMsg
  <2>4. BridgeType' /\ ListensInv'
    BY <1>1, <1>2, <2>1, <2>2 DEF BridgeType, ListensInv
  <2>5. OwnInv'
    BY <1>1, <1>2, <2>1 DEF OwnInv, Own
  <2>6. PendingInv' /\ IdInv' /\ \A f \in Fetches : FetchOf(f)'
    BY <1>1, <2>1 DEF PendingInv, IdInv, FetchOf
  <2>7. AnswerInv'
    BY <1>1, <2>1, <2>3 DEF AnswerInv
  <2> QED
    BY <2>4, <2>5, <2>6, <2>7
<1>4. CASE m # ReadyMsg /\ m.id \notin DOMAIN pending
  <2>0. m.kind = "sk-response" /\ m.of \in Fetches /\ m.id \in Nat
    BY <1>2, <1>4 DEF AnswersSent
  <2>1. UNCHANGED <<ready, pending, fetches>>
    BY <1>4, <2>0 DEF OnMessage
  <2>2. BridgeType' /\ ListensInv'
    BY <1>1, <1>2, <2>1 DEF BridgeType, ListensInv
  <2>3. ASSUME NEW f \in Fetches, fetches[f].pc = "waiting", OnTheWay(f) PROVE OnTheWay(f)'
    <3>1. fetches[f].id \in DOMAIN pending
      BY <2>3 DEF PendingInv
    <3>2. ReplyOf(f) # m
      BY <1>4, <3>1 DEF ReplyOf
    <3> QED
      BY <1>1, <1>2, <2>1, <2>3, <3>2 DEF OnTheWay, RequestOf, ReplyOf
  <2>4. OwnInv'
    BY <1>1, <1>2, <2>1 DEF OwnInv, Own
  <2>5. PendingInv' /\ IdInv' /\ \A f \in Fetches : FetchOf(f)'
    BY <1>1, <2>1 DEF PendingInv, IdInv, FetchOf
  <2>6. AnswerInv'
    BY <1>1, <2>1, <2>3 DEF AnswerInv
  <2> QED
    BY <2>2, <2>4, <2>5, <2>6
<1>5. CASE m # ReadyMsg /\ m.id \in DOMAIN pending
  <2> DEFINE f == pending[m.id]
             k == [fetches[f] EXCEPT !.pc = "settled", !.got = f, !.answers = fetches[f].answers + 1]
  <2>0. m.kind = "sk-response" /\ m.of \in Fetches /\ m.id \in Nat
    BY <1>2, <1>5 DEF AnswersSent
  <2>1. f \in Fetches /\ m.of = f /\ fetches[f].pc = "waiting" /\ fetches[f].id = m.id
    <3>1. Own(m)
      BY <1>2, <1>5 DEF OwnInv
    <3>2. f \in Fetches /\ fetches[f].pc = "waiting" /\ fetches[f].id = m.id
      BY <1>5 DEF PendingInv
    <3> QED
      BY <2>0, <3>1, <3>2 DEF Own, IdInv
  <2>2. fetches[f] \in FetchRecords /\ fetches[f].answers = 0
    <3>1. FetchOf(f)
      BY <2>1
    <3> QED
      BY <2>1, <3>1 DEF BridgeType, FetchOf
  <2>3. /\ k \in FetchRecords /\ k.pc = "settled" /\ k.got = f /\ k.answers = 1 /\ k.id = fetches[f].id
    BY <2>1, <2>2, Settled
  <2>4. /\ fetches' = [fetches EXCEPT ![f] = k] /\ UNCHANGED ready
        /\ DOMAIN pending' = DOMAIN pending \ {m.id}
        /\ \A i \in DOMAIN pending \ {m.id} : pending'[i] = pending[i]
    <3>1. m.kind # "sk-ready"
      BY <2>0
    <3> DEFINE h == [fetches[f] EXCEPT !.pc = "settled", !.got = m.of, !.answers = fetches[f].answers + 1]
    <3>2. /\ fetches' = [fetches EXCEPT ![f] = h]
          /\ pending' = [i \in DOMAIN pending \ {m.id} |-> pending[i]]
          /\ UNCHANGED ready
      BY <1>5, <2>0, <3>1 DEF OnMessage
    <3>3. h = k
      BY <2>1
    <3> QED
      BY <3>2, <3>3
  <2> HIDE DEF k, f
  <2>5. /\ fetches' \in [Fetches -> FetchRecords] /\ fetches'[f] = k
        /\ \A g \in Fetches \ {f} : fetches'[g] = fetches[g]
    BY <2>1, <2>3, <2>4 DEF BridgeType
  <2>6. BridgeType' /\ ListensInv'
    BY <1>1, <1>2, <2>4, <2>5 DEF BridgeType, ListensInv
  <2>7. \A g \in Fetches : FetchOf(g)'
    <3>1. ASSUME NEW g \in Fetches PROVE FetchOf(g)
      OBVIOUS
    <3> QED
      BY <1>1, <2>1, <2>3, <2>5, <3>1 DEF FetchOf
  <2>8. IdInv'
    BY <2>1, <2>3, <2>5 DEF IdInv
  <2>9. PendingInv'
    <3>1. ASSUME NEW i \in DOMAIN pending \ {m.id}
          PROVE  pending[i] \in Fetches \ {f} /\ fetches'[pending[i]] = fetches[pending[i]]
      BY <2>1, <2>5 DEF PendingInv
    <3>2. \A g \in Fetches : fetches'[g].pc = "waiting" => g # f /\ fetches[g].id # m.id
      BY <2>0, <2>1, <2>3, <2>5 DEF IdInv
    <3> QED
      BY <2>4, <2>5, <3>1, <3>2 DEF PendingInv
  <2>10. OwnInv'
    <3>1. \A x : Own(x) /\ x.of \in Fetches => Own(x)'
      BY <2>1, <2>3, <2>5 DEF Own
    <3> QED
      BY <1>1, <1>2, <3>1, Messages DEF OwnInv
  <2>11. AnswerInv'
    <3>1. ASSUME NEW g \in Fetches \ {f}, OnTheWay(g) PROVE OnTheWay(g)'
      <4>1. ReplyOf(g) # m
        BY <2>1, <3>1 DEF ReplyOf
      <4> QED
        BY <1>1, <1>2, <2>5, <3>1, <4>1 DEF OnTheWay, RequestOf, ReplyOf
    <3> QED
      BY <1>1, <2>3, <2>5, <3>1 DEF AnswerInv
  <2> QED
    BY <2>6, <2>7, <2>8, <2>9, <2>10, <2>11
<1> QED
  BY <1>3, <1>4, <1>5

\* What only moves messages, or who listens.
LEMMA CarriedOn ==
  ASSUME BridgeInv, UNCHANGED <<nextId, pending, ready, fetches>>, BridgeType', ListensInv',
         \A m \in Range(toWorker') \cup handling' :
           m \in Range(toWorker) \cup handling,
         \A m \in Range(toPage') : m # ReadyMsg =>
           \/ m \in Range(toPage)
           \/ \E r \in handling : m = [kind |-> "sk-response", id |-> r.id, of |-> r.of],
         \A f \in Fetches : fetches[f].pc = "waiting" /\ ~fetches[f].early /\ ~disposed' /\ OnTheWay(f) =>
                              OnTheWay(f)',
         disposed => disposed', serving /\ ~disposed' => serving'
  PROVE  BridgeInv'
<1> USE DEF BridgeInv
<1>1. IdInv' /\ PendingInv' /\ \A f \in Fetches : FetchOf(f)'
  BY DEF IdInv, PendingInv, FetchOf
<1>2. OwnInv'
  BY DEF OwnInv, Own
<1>3. AnswerInv'
  BY DEF AnswerInv
<1> QED
  BY <1>1, <1>2, <1>3

LEMMA WorkerKeeps ==
  ASSUME BridgeInv, Dispose \/ ServeInWorker \/ Take \/ \E r \in handling : WorkerResponds(r)
  PROVE  BridgeInv'
<1> USE DEF BridgeInv
<1>1. CASE Dispose
  <2>1. BridgeType' /\ ListensInv'
    <3>1. \A S : <<>> \in Seq(S)
      OBVIOUS
    <3>2. /\ disposed' = TRUE /\ toWorker' = <<>> /\ toPage' = <<>> /\ handling' = {} /\ serving' = FALSE
          /\ UNCHANGED <<nextId, ready, fetches>>
      BY <1>1 DEF Dispose
    <3> QED
      BY <3>1, <3>2 DEF BridgeType, ListensInv
  <2>2. Range(toWorker') = {} /\ Range(toPage') = {}
    BY <1>1, RangeNone DEF Dispose
  <2> QED
    BY <1>1, <2>1, <2>2, CarriedOn DEF Dispose
<1>2. CASE ServeInWorker
  <2>1. /\ toPage' \in Seq(AnswersSent \cup {ReadyMsg}) /\ Range(toPage') = Range(toPage) \cup {ReadyMsg}
    BY <1>2, RangeAll DEF ServeInWorker, BridgeType, ReadyMsg
  <2>2. serving' = TRUE /\ UNCHANGED <<nextId, pending, toWorker, handling, ready, fetches, disposed>>
    BY <1>2 DEF ServeInWorker
  <2>3. BridgeType' /\ ListensInv'
    BY <2>1, <2>2 DEF BridgeType, ListensInv
  <2>4. \A f \in Fetches : OnTheWay(f) => OnTheWay(f)'
    BY <2>1, <2>2 DEF OnTheWay, RequestOf, ReplyOf
  <2> QED
    BY <2>1, <2>2, <2>3, <2>4, CarriedOn
<1>3. CASE Take
  <2>1. /\ toWorker' \in Seq(Sent) /\ Head(toWorker) \in Sent
        /\ Range(toWorker) = {Head(toWorker)} \cup Range(toWorker')
    BY <1>3, RangeAll DEF Take, BridgeType
  <2>2. /\ handling' = IF serving THEN handling \cup {Head(toWorker)} ELSE handling
        /\ UNCHANGED <<nextId, pending, toPage, serving, ready, fetches, disposed>>
    BY <1>3 DEF Take
  <2>3. BridgeType' /\ ListensInv'
    BY <2>1, <2>2 DEF BridgeType, ListensInv
  <2>4. ASSUME NEW f \in Fetches, fetches[f].pc = "waiting", ~fetches[f].early, ~disposed, OnTheWay(f)
        PROVE  OnTheWay(f)'
    BY <2>1, <2>2, <2>4 DEF OnTheWay, RequestOf, ReplyOf, AnswerInv
  <2> QED
    BY <2>1, <2>2, <2>3, <2>4, CarriedOn
<1>4. ASSUME NEW r \in handling, WorkerResponds(r) PROVE BridgeInv'
  <2> DEFINE m == [kind |-> "sk-response", id |-> r.id, of |-> r.of]
  <2>1. r \in Sent /\ m \in AnswersSent
    BY DEF BridgeType, Sent, AnswersSent
  <2>2. toPage' \in Seq(AnswersSent \cup {ReadyMsg}) /\ Range(toPage') = Range(toPage) \cup {m}
    BY <1>4, <2>1, RangeAll DEF WorkerResponds, BridgeType
  <2>3. /\ handling' = handling \ {r}
        /\ UNCHANGED <<nextId, pending, toWorker, serving, ready, fetches, disposed>>
    BY <1>4 DEF WorkerResponds
  <2>4. m # ReadyMsg
    BY DEF ReadyMsg
  <2>5. BridgeType' /\ ListensInv'
    BY <2>2, <2>3, <2>4 DEF BridgeType, ListensInv
  <2>6. ASSUME NEW f \in Fetches, OnTheWay(f) PROVE OnTheWay(f)'
    <3>1. RequestOf(f) = r => m = ReplyOf(f)
      BY DEF RequestOf, ReplyOf
    <3>2. RequestOf(f)' = RequestOf(f) /\ ReplyOf(f)' = ReplyOf(f)
      BY <2>3 DEF RequestOf, ReplyOf
    <3> QED
      BY <2>2, <2>3, <2>6, <3>1, <3>2 DEF OnTheWay
  <2> QED
    BY <2>2, <2>3, <2>5, <2>6, CarriedOn
<1> QED
  BY <1>1, <1>2, <1>3, <1>4

LEMMA BridgeSteps ==
  ASSUME BridgeInv, [BridgeNext]_bridgeVars
  PROVE  BridgeInv'
<1>1. CASE UNCHANGED bridgeVars
  BY <1>1 DEF bridgeVars, BridgeInv, BridgeType, FetchOf, IdInv, PendingInv, OwnInv, Own, ListensInv,
              AnswerInv, OnTheWay, RequestOf, ReplyOf
<1> QED
  BY <1>1, FetchKeeps, EncodeKeeps, OnMessageKeeps, WorkerKeeps DEF BridgeNext

\* For any number of calls of fetch(), however the worker interleaves its answers, when it begins
\* to listen and whether it is disposed of: a fetch is settled at most once and with its own
\* answer, and with nothing on its way none that was made after "sk-ready" is still waiting
\* (client.ts, worker-bridge.ts).
THEOREM BridgeAnsweredOwn == BridgeSpec => []AnsweredOwn
<1>1. BridgeInv => AnsweredOwn
  <2> SUFFICES ASSUME BridgeInv PROVE AnsweredOwn
    OBVIOUS
  <2>1. ASSUME NEW f \in Fetches
        PROVE  fetches[f].got \in {"none", "rejected", f} /\ fetches[f].answers <= 1
    BY DEF BridgeInv, FetchOf
  <2>2. ASSUME toWorker = <<>>, toPage = <<>>, handling = {}, NEW f \in Fetches
        PROVE  ~OnTheWay(f)
    BY <2>2, RangeNone DEF OnTheWay
  <2> QED
    BY <2>1, <2>2 DEF AnsweredOwn, BridgeInv, AnswerInv
<1> QED
  BY <1>1, BridgeStarts, BridgeSteps, PTL DEF BridgeSpec

--------------------------------------------------------------------------------
(* The Management API.  RecordedIffApplied speaks of what is committed.  What *)
(* a request still carries has to be followed up to there: what its statement *)
(* will bring into effect, where an effect can stand before its commit (on D1 *)
(* only), and whose row an INSERT waits for.                                  *)

Places == {"idle", "ensure", "version", "begin", "run", "record", "commit", "answer", "done"}

CallRecord == [pc : Places, query : BOOLEAN, readOnly : BOOLEAN, statement : Statements,
               version : Nat, done : SUBSET Admins]

CallsType ==
  /\ dialect \in {"postgres", "pglite", "sqlite", "d1"} /\ second \in Nat
  /\ calls \in [Admins -> CallRecord]
  /\ recorded \subseteq [version : Nat, by : Admins]
  /\ effects \subseteq Admins /\ answered \subseteq Admins

\* What a request's statement does: a migration always has an effect, a query if it writes.
Works(c) == ~calls[c].query \/ calls[c].statement # "reads"

\* A query that is to read only writes without a word of the list or not at all, and on Postgres not
\* at all once its statement has run.
Sparing(c) ==
  calls[c].query /\ calls[c].readOnly =>
    /\ calls[c].statement \in {"reads", "unlisted"}
    /\ dialect = "postgres" /\ calls[c].pc \in {"record", "commit"} => calls[c].statement = "reads"

\* A request carries its own effect from its statement to its commit; only migrations record.
CarriedInv ==
  \A c \in Admins :
    /\ calls[c].pc \in {"record", "commit"} => calls[c].done = IF Works(c) THEN {c} ELSE {}
    /\ calls[c].pc \in {"record", "ensure", "version"} => ~calls[c].query
    /\ Sparing(c)

\* Where the requests in effect stand: they have committed, or, on D1, have run or been refused.
EffectInv ==
  /\ \A c \in effects :
       /\ calls[c].pc \in {"idle", "record", "commit", "answer", "done"}
       /\ dialect # "d1" => calls[c].pc \in {"answer", "done"}
       /\ calls[c].query =>
            /\ calls[c].statement # "reads" /\ calls[c].pc \in {"commit", "answer", "done"}
            /\ calls[c].readOnly => dialect # "postgres"
  /\ \A c \in Admins :
       /\ dialect = "d1" /\ calls[c].pc \in {"record", "commit"} => calls[c].done \subseteq effects
       /\ calls[c].pc = "answer" => c \in effects \/ ~Works(c)
       /\ c \in answered => calls[c].pc = "done" /\ (c \in effects \/ ~Works(c))

\* The row a migration is about to commit: it stands already (D1), or its version is free.
Recording(c) == calls[c].pc = "commit" /\ ~calls[c].query

RowsInv ==
  /\ \A r \in recorded : r.by \in effects
  /\ \A c \in effects : dialect # "d1" /\ ~calls[c].query => \E r \in recorded : r.by = c
  /\ \A r, s \in recorded : r.version = s.version => r = s
  /\ \A c \in Admins : Recording(c) =>
       /\ dialect = "d1" => Row(c) \in recorded
       /\ dialect # "d1" => \A r \in recorded : r.version # calls[c].version
       /\ \A d \in Admins : Recording(d) /\ d # c => calls[d].version # calls[c].version

ManagementInv == CallsType /\ CarriedInv /\ EffectInv /\ RowsInv

--------------------------------------------------------------------------------
LEMMA ManagementStarts == ManagementInit => ManagementInv
  BY DEF ManagementInit, ManagementInv, CallsType, CallRecord, CarriedInv, EffectInv, RowsInv, Calm, Places,
         Recording, Works, Sparing, Statements

\* The body of a request stays what it is.
SameBody(c) == /\ calls'[c].query = calls[c].query /\ calls'[c].readOnly = calls[c].readOnly
               /\ calls'[c].statement = calls[c].statement

USE DEF SameBody

LEMMA CalmType == Calm \in CallRecord /\ Calm.pc = "idle" /\ ~Calm.query
  BY DEF Calm, Places, CallRecord, Statements

\* A request moves by itself: the type of what it leaves behind, and the requests beside it.
LEMMA Moved ==
  ASSUME CallsType, NEW c \in Admins,
         NEW k \in CallRecord,
         calls' = [calls EXCEPT ![c] = k]
  PROVE  /\ calls' \in [Admins -> CallRecord]
         /\ calls'[c] = k /\ \A d \in Admins : d # c => calls'[d] = calls[d]
  BY DEF CallsType, CallRecord

\* The same, for a request that only goes on.
LEMMA WentOn ==
  ASSUME CallsType, NEW c \in Admins, NEW l \in Places, CallGoesOn(c, l)
  PROVE  /\ calls' \in [Admins -> CallRecord]
         /\ calls'[c].pc = l /\ SameBody(c)
         /\ calls'[c].version = calls[c].version /\ calls'[c].done = calls[c].done
         /\ \A d \in Admins : d # c => calls'[d] = calls[d]
  BY DEF CallsType, CallRecord, CallGoesOn

LEMMA RolledBack ==
  ASSUME CallsType, NEW c \in Admins, Rolled(c)
  PROVE  /\ calls' \in [Admins -> CallRecord]
         /\ calls'[c] = Calm /\ \A d \in Admins : d # c => calls'[d] = calls[d]
  BY CalmType DEF CallsType, Rolled

\* Requests that neither run a statement, nor are recorded, nor are answered.
LEMMA Preparing ==
  ASSUME ManagementInv, NEW c \in Admins,
         \/ TakeRequest(c) \/ EnsureMigrationTable(c) \/ TakeVersion(c) \/ BeginMigration(c) \/ Fail(c)
         \/ Lose(c)
  PROVE  ManagementInv'
<1>1. /\ calls' \in [Admins -> CallRecord]
      /\ \A d \in Admins : d # c => calls'[d] = calls[d]
      /\ calls'[c].pc \in {"idle", "ensure", "version", "begin", "run", "done"}
      /\ calls'[c].pc \in {"ensure", "version"} => ~calls'[c].query
      /\ c \in effects =>
           \/ calls[c].pc \in {"record", "commit", "answer"} /\ calls'[c].pc = "done" /\ SameBody(c)
           \/ dialect = "d1" /\ calls'[c].pc = "idle" /\ ~calls'[c].query
      /\ Sparing(c)' /\ c \notin answered
      /\ UNCHANGED <<dialect, second, recorded, effects, answered>>
  <2>1. CASE TakeRequest(c)
    <3>1. PICK l \in {"begin", "ensure"}, query \in BOOLEAN, readOnly \in BOOLEAN, statement \in Statements :
            /\ calls' = [calls EXCEPT ![c] = [Calm EXCEPT !.pc = l, !.query = query, !.readOnly = readOnly,
                                                         !.statement = statement]]
            /\ l = "ensure" => ~query
            /\ query => Admitted(readOnly, statement)
      BY <2>1 DEF TakeRequest
    <3> DEFINE k == [Calm EXCEPT !.pc = l, !.query = query, !.readOnly = readOnly, !.statement = statement]
    <3>2. k \in CallRecord
      BY CalmType DEF Places, CallRecord
    <3>3. calls' = [calls EXCEPT ![c] = k]
      BY <3>1
    <3>4. /\ k.pc \in {"begin", "ensure"} /\ (k.pc = "ensure" => ~k.query)
          /\ k.query /\ k.readOnly => k.statement \in {"reads", "unlisted"}
      BY <3>1, CalmType DEF CallRecord, Admitted, Statements
    <3>5. calls[c].pc = "idle" /\ c \notin effects /\ UNCHANGED <<dialect, second, recorded, effects, answered>>
      BY <2>1 DEF TakeRequest, CallAt
    <3>6. c \notin answered
      BY <3>5 DEF ManagementInv, EffectInv
    <3> HIDE DEF k
    <3>7. calls'[c] = k /\ \A d \in Admins : d # c => calls'[d] = calls[d]
      BY <3>2, <3>3, Moved DEF ManagementInv
    <3>8. calls' \in [Admins -> CallRecord]
      BY <3>2, <3>3, Moved DEF ManagementInv
    <3> QED
      BY <3>5, <3>6, <3>7, <3>8, <3>4 DEF Sparing
  <2>2. CASE EnsureMigrationTable(c)
    <3>1. CallGoesOn(c, "version") /\ calls[c].pc = "ensure" /\ "version" \in Places
          /\ UNCHANGED <<dialect, second, recorded, effects, answered>>
      BY <2>2 DEF EnsureMigrationTable, CallAt, Places
    <3>2. /\ calls' \in [Admins -> CallRecord] /\ calls'[c].pc = "version" /\ SameBody(c)
          /\ \A d \in Admins : d # c => calls'[d] = calls[d]
      BY <3>1, WentOn DEF ManagementInv
    <3>3. ~calls[c].query /\ c \notin effects /\ c \notin answered
      BY <3>1 DEF ManagementInv, CarriedInv, EffectInv
    <3> QED
      BY <3>1, <3>2, <3>3 DEF Sparing
  <2>7. CASE TakeVersion(c) /\ Rolled(c)
    <3>1. calls[c].pc = "version" /\ UNCHANGED <<dialect, second, recorded, effects, answered>>
      BY <2>7 DEF TakeVersion, CallAt
    <3>2. c \notin effects /\ c \notin answered
      BY <3>1 DEF ManagementInv, EffectInv
    <3> QED
      BY <2>7, <3>1, <3>2, RolledBack, CalmType DEF ManagementInv, Sparing
  <2>3. CASE TakeVersion(c) /\ ~Rolled(c)
    <3>1. /\ calls' = [calls EXCEPT ![c].pc = "begin", ![c].version = second]
          /\ calls[c].pc = "version" /\ second \in Nat
          /\ UNCHANGED <<dialect, second, recorded, effects, answered>>
      BY <2>3 DEF TakeVersion, CallAt, ManagementInv, CallsType, CallRecord
    <3> DEFINE k == [calls[c] EXCEPT !.pc = "begin", !.version = second]
    <3>2. k \in CallRecord
      <4>1. calls[c] \in CallRecord
        BY DEF ManagementInv, CallsType, CallRecord
      <4> QED
        BY <3>1, <4>1 DEF Places, CallRecord
    <3>3. calls' = [calls EXCEPT ![c] = k]
      BY <3>1, ZenonT(60) DEF ManagementInv, CallsType, CallRecord
    <3>7. k.pc = "begin" /\ k.query = calls[c].query
      BY DEF ManagementInv, CallsType, CallRecord
    <3>4. c \notin effects /\ c \notin answered /\ ~calls[c].query
      BY <3>1 DEF ManagementInv, EffectInv, CarriedInv
    <3> HIDE DEF k
    <3>5. calls'[c] = k /\ \A d \in Admins : d # c => calls'[d] = calls[d]
      BY <3>2, <3>3, Moved DEF ManagementInv
    <3>6. calls' \in [Admins -> CallRecord]
      BY <3>2, <3>3, Moved DEF ManagementInv
    <3> QED
      BY <3>1, <3>4, <3>5, <3>6, <3>7 DEF Sparing
  <2>4. CASE BeginMigration(c)
    <3>1. /\ Rolled(c) \/ CallGoesOn(c, "run")
          /\ calls[c].pc = "begin" /\ UNCHANGED <<dialect, second, recorded, effects, answered>>
      BY <2>4 DEF BeginMigration, CallAt
    <3>2. c \notin effects /\ c \notin answered
      BY <3>1 DEF ManagementInv, EffectInv
    <3>3. CASE Rolled(c)
      BY <3>1, <3>2, <3>3, RolledBack, CalmType DEF ManagementInv, Sparing
    <3>4. CASE CallGoesOn(c, "run")
      <4>1. /\ calls' \in [Admins -> CallRecord] /\ calls'[c].pc = "run" /\ SameBody(c)
            /\ \A d \in Admins : d # c => calls'[d] = calls[d]
        BY <3>4, WentOn DEF ManagementInv, Places
      <4>2. Sparing(c)'
        BY <3>1, <4>1 DEF ManagementInv, CarriedInv, Sparing
      <4> QED
        BY <3>1, <3>2, <4>1, <4>2
    <3> QED
      BY <3>1, <3>3, <3>4
  <2>5. CASE Fail(c)
    <3>1. /\ Rolled(c) /\ calls[c].pc \in {"run", "record"}
          /\ UNCHANGED <<dialect, second, recorded, effects, answered>>
      BY <2>5 DEF Fail
    <3>2. c \notin answered /\ (c \in effects => dialect = "d1")
      BY <3>1 DEF ManagementInv, EffectInv
    <3> QED
      BY <3>1, <3>2, RolledBack, CalmType DEF ManagementInv, Sparing
  <2>6. CASE Lose(c)
    <3>1. /\ CallGoesOn(c, "done") /\ calls[c].pc \notin {"idle", "done"}
          /\ UNCHANGED <<dialect, second, recorded, effects, answered>>
      BY <2>6 DEF Lose
    <3>2. /\ calls' \in [Admins -> CallRecord] /\ calls'[c].pc = "done" /\ SameBody(c)
          /\ \A d \in Admins : d # c => calls'[d] = calls[d]
      BY <3>1, WentOn DEF ManagementInv, Places
    <3>3. c \notin answered /\ (c \in effects => calls[c].pc \in {"record", "commit", "answer"})
      BY <3>1 DEF ManagementInv, EffectInv
    <3>4. Sparing(c)'
      BY <3>1, <3>2 DEF ManagementInv, CarriedInv, Sparing
    <3> QED
      BY <3>1, <3>2, <3>3, <3>4
  <2> QED
    BY <2>1, <2>2, <2>3, <2>4, <2>5, <2>6, <2>7
<1>2. CallsType'
  BY <1>1 DEF ManagementInv, CallsType, CallRecord
<1>3. CarriedInv'
  <2>1. \A d \in Admins : d # c => Sparing(d)'
    BY <1>1 DEF ManagementInv, CarriedInv, Sparing
  <2> QED
    BY <1>1, <2>1 DEF ManagementInv, CarriedInv, Works
<1>4. EffectInv'
  BY <1>1 DEF ManagementInv, CallsType, CallRecord, EffectInv, Works
<1>5. RowsInv'
  BY <1>1 DEF ManagementInv, CallsType, CallRecord, RowsInv, Recording, Row
<1> QED
  BY <1>2, <1>3, <1>4, <1>5 DEF ManagementInv

\* The statement runs: on D1 its effect stands at once, elsewhere it waits for the commit.
LEMMA ExecuteKeeps ==
  ASSUME ManagementInv, NEW c \in Admins, ExecuteStatements(c)
  PROVE  ManagementInv'
<1> DEFINE done == IF calls[c].query /\ calls[c].statement = "reads" THEN {} ELSE {c}
<1>1. /\ calls' \in [Admins -> CallRecord]
      /\ \A d \in Admins : d # c => calls'[d] = calls[d]
      /\ calls'[c].pc = IF calls[c].query THEN "commit" ELSE "record"
      /\ calls'[c].done = done /\ SameBody(c)
      /\ dialect = "postgres" /\ calls[c].readOnly => calls[c].statement = "reads"
      /\ effects' = IF dialect = "d1" THEN effects \cup done ELSE effects
      /\ UNCHANGED <<dialect, second, recorded, answered>>
      /\ calls[c].pc = "run" /\ c \notin effects /\ c \notin answered
  <2> DEFINE k == [calls[c] EXCEPT !.pc = IF calls[c].query THEN "commit" ELSE "record", !.done = done]
  <2>1. /\ k \in CallRecord
        /\ k.pc = IF calls[c].query THEN "commit" ELSE "record"
        /\ k.done = done /\ k.query = calls[c].query /\ k.readOnly = calls[c].readOnly
        /\ k.statement = calls[c].statement
    <3>1. calls[c] \in CallRecord
      BY DEF ManagementInv, CallsType, CallRecord
    <3>2. done \in SUBSET Admins
      OBVIOUS
    <3> HIDE DEF done
    <3> QED
      BY <3>1, <3>2 DEF Places, CallRecord
  <2>2. calls' = [calls EXCEPT ![c] = k]
    BY DEF ExecuteStatements, ManagementInv, CallsType, CallRecord
  <2>3. /\ effects' = IF dialect = "d1" THEN effects \cup done ELSE effects
        /\ UNCHANGED <<dialect, second, recorded, answered>> /\ calls[c].pc = "run"
        /\ dialect = "postgres" /\ calls[c].readOnly => calls[c].statement = "reads"
    BY DEF ExecuteStatements, CallAt
  <2>4. c \notin effects /\ c \notin answered
    BY <2>3 DEF ManagementInv, EffectInv
  <2> HIDE DEF k
  <2>5. calls'[c] = k /\ \A d \in Admins : d # c => calls'[d] = calls[d]
    BY <2>1, <2>2, Moved DEF ManagementInv
  <2>6. calls' \in [Admins -> CallRecord]
    BY <2>1, <2>2, Moved DEF ManagementInv
  <2> QED
    BY <2>1, <2>3, <2>4, <2>5, <2>6
<1>2. CallsType'
  BY <1>1 DEF ManagementInv, CallsType, CallRecord
<1>3. CarriedInv'
  <2>1. \A d \in Admins : Sparing(d)'
    BY <1>1 DEF ManagementInv, CarriedInv, Sparing
  <2> QED
    BY <1>1, <2>1 DEF ManagementInv, CallsType, CallRecord, CarriedInv, Works
<1>4. EffectInv'
  BY <1>1 DEF ManagementInv, CallsType, CallRecord, CarriedInv, Sparing, EffectInv, Works
<1>5. RowsInv'
  BY <1>1 DEF ManagementInv, CallsType, CallRecord, RowsInv, Recording, Row
<1> QED
  BY <1>2, <1>3, <1>4, <1>5 DEF ManagementInv

\* The INSERT: nobody is about to commit the same version, and no row has it, or it is refused.
LEMMA RecordKeeps ==
  ASSUME ManagementInv, NEW c \in Admins, Record(c)
  PROVE  ManagementInv'
<1> DEFINE taken == \E r \in recorded : r.version = calls[c].version
<1>0. /\ ~calls[c].query /\ calls[c].done = {c} /\ c \notin answered
      /\ calls[c].version \in Nat /\ Row(c) \in [version : Nat, by : Admins]
      /\ \A d \in Admins : Recording(d) => calls[d].version # calls[c].version
      /\ UNCHANGED <<dialect, second, effects, answered>>
      /\ dialect = "d1" => c \in effects
      /\ dialect # "d1" => c \notin effects
      /\ calls[c].pc = "record"
  <2>1. calls[c].pc = "record" /\ UNCHANGED <<dialect, second, effects, answered>>
    BY DEF Record, CallAt
  <2>2. ~calls[c].query /\ calls[c].done = {c}
    BY <2>1 DEF ManagementInv, CarriedInv, Works
  <2>3. c \notin answered /\ (dialect = "d1" => c \in effects) /\ (dialect # "d1" => c \notin effects)
    BY <2>1, <2>2 DEF ManagementInv, EffectInv
  <2>4. calls[c].version \in Nat /\ Row(c) \in [version : Nat, by : Admins]
    BY DEF ManagementInv, CallsType, CallRecord, Row
  <2>5. \A d \in Admins : Recording(d) => calls[d].version # calls[c].version
    BY DEF Record, CallAt, Recording
  <2> QED
    BY <2>1, <2>2, <2>3, <2>4, <2>5
<1>1. CASE taken
  <2>1. /\ calls' \in [Admins -> CallRecord]
        /\ calls'[c] = Calm /\ \A d \in Admins : d # c => calls'[d] = calls[d]
        /\ recorded' = recorded
    BY <1>1, RolledBack DEF ManagementInv, Record
  <2>2. CallsType'
    BY <1>0, <2>1 DEF ManagementInv, CallsType, CallRecord
  <2>5. CarriedInv'
    <3>1. \A d \in Admins : Sparing(d)'
      BY <1>0, <2>1, CalmType DEF ManagementInv, CarriedInv, Sparing
    <3> QED
      BY <1>0, <2>1, <3>1, CalmType DEF ManagementInv, CarriedInv, Works
  <2>4. EffectInv'
    BY <1>0, <2>1 DEF ManagementInv, CallsType, CallRecord, EffectInv, Works, Calm
  <2>3. RowsInv'
    BY <1>0, <2>1 DEF ManagementInv, CallsType, CallRecord, RowsInv, Recording, Row, Calm
  <2> QED
    BY <2>2, <2>3, <2>4, <2>5 DEF ManagementInv
<1>2. CASE ~taken
  <2>1. /\ calls' \in [Admins -> CallRecord]
        /\ calls'[c].pc = "commit" /\ SameBody(c)
        /\ calls'[c].version = calls[c].version /\ calls'[c].done = calls[c].done
        /\ \A d \in Admins : d # c => calls'[d] = calls[d]
        /\ recorded' = IF dialect = "d1" THEN recorded \cup {Row(c)} ELSE recorded
    BY <1>2, WentOn DEF ManagementInv, Record, Places
  <2>5. \A d \in Admins : Sparing(d)'
    BY <1>0, <2>1 DEF ManagementInv, CarriedInv, Sparing
  <2>2. CallsType' /\ CarriedInv'
    BY <1>0, <2>1, <2>5, ZenonT(60) DEF ManagementInv, CallsType, CarriedInv, Works
  <2>4. EffectInv'
    BY <1>0, <2>1 DEF ManagementInv, CallsType, CallRecord, EffectInv, Works
  <2>3. RowsInv'
    <3>1. Row(c).by = c /\ Row(c).version = calls[c].version /\ Row(c)' = Row(c)
      BY <2>1 DEF Row
    <3>2. \A d \in Admins : Recording(d)' => d = c \/ Recording(d)
      BY <2>1 DEF Recording
    <3>3. \A d \in Admins : d # c => Row(d)' = Row(d)
      BY <2>1 DEF Row
    <3>4. \A r \in recorded' : r.by \in effects'
      BY <1>0, <2>1, <3>1 DEF ManagementInv, RowsInv
    <3>5. \A d \in effects' : dialect' # "d1" /\ ~calls'[d].query => \E r \in recorded' : r.by = d
      BY <1>0, <2>1 DEF ManagementInv, CallsType, RowsInv
    <3>6. \A r, s \in recorded' : r.version = s.version => r = s
      BY <1>2, <2>1, <3>1 DEF ManagementInv, RowsInv
    <3>7. ASSUME NEW d \in Admins, Recording(d)'
          PROVE  /\ dialect' = "d1" => Row(d)' \in recorded'
                 /\ dialect' # "d1" => \A r \in recorded' : r.version # calls'[d].version
                 /\ \A e \in Admins : Recording(e)' /\ e # d => calls'[e].version # calls'[d].version
      <4>1. CASE d = c
        BY <1>0, <1>2, <2>1, <3>1, <3>2, <4>1
      <4>2. CASE d # c
        <5>1. Recording(d) /\ calls'[d] = calls[d] /\ Row(d)' = Row(d)
          BY <2>1, <3>2, <3>3, <3>7, <4>2
        <5>2. \A e \in Admins : Recording(e)' /\ e # d => calls'[e].version # calls'[d].version
          BY <1>0, <2>1, <3>2, <5>1 DEF ManagementInv, RowsInv
        <5> QED
          BY <1>0, <2>1, <5>1, <5>2 DEF ManagementInv, RowsInv
      <4> QED
        BY <4>1, <4>2
    <3> QED
      BY <3>4, <3>5, <3>6, <3>7 DEF RowsInv
  <2> QED
    BY <2>2, <2>3, <2>4, <2>5 DEF ManagementInv
<1> QED
  BY <1>1, <1>2

LEMMA CommitKeeps ==
  ASSUME ManagementInv, NEW c \in Admins, CommitStatements(c)
  PROVE  ManagementInv'
<1>1. /\ calls' \in [Admins -> CallRecord]
      /\ calls'[c].pc = "answer" /\ SameBody(c)
      /\ calls'[c].version = calls[c].version /\ calls'[c].done = calls[c].done
      /\ \A d \in Admins : d # c => calls'[d] = calls[d]
  BY WentOn DEF ManagementInv, CommitStatements, Places
<1>2. /\ calls[c].done = IF Works(c) THEN {c} ELSE {}
      /\ effects' = IF Works(c) THEN effects \cup {c} ELSE effects
      /\ recorded' = IF calls[c].query THEN recorded ELSE recorded \cup {Row(c)}
      /\ calls[c].pc = "commit" /\ c \notin answered
      /\ UNCHANGED <<dialect, second, answered>>
  BY DEF ManagementInv, CarriedInv, EffectInv, CommitStatements, CallAt
<1>3. Row(c) \in [version : Nat, by : Admins] /\ Row(c).by = c /\ Row(c).version = calls[c].version
  BY DEF ManagementInv, CallsType, CallRecord, Row
<1>7. \A d \in Admins : Sparing(d)'
  BY <1>1, <1>2 DEF ManagementInv, CarriedInv, Sparing
<1>8. CallsType'
  BY <1>1, <1>2, <1>3 DEF ManagementInv, CallsType
<1>4. CallsType' /\ CarriedInv'
  BY <1>1, <1>2, <1>7, <1>8 DEF ManagementInv, CarriedInv, Works
<1>5. EffectInv'
  <2>1. c \in effects' /\ calls[c].query =>
          calls[c].statement # "reads" /\ (calls[c].readOnly => dialect # "postgres")
    BY <1>2 DEF ManagementInv, CarriedInv, EffectInv, Sparing, Works
  <2>2. \A d \in effects' : d # c => d \in effects
    BY <1>2
  <2>3. effects' \subseteq Admins
    BY <1>2 DEF ManagementInv, CallsType
  <2>4. ASSUME NEW d \in effects'
        PROVE  /\ calls'[d].pc \in {"idle", "record", "commit", "answer", "done"}
               /\ dialect' # "d1" => calls'[d].pc \in {"answer", "done"}
               /\ calls'[d].query =>
                    /\ calls'[d].statement # "reads" /\ calls'[d].pc \in {"commit", "answer", "done"}
                    /\ calls'[d].readOnly => dialect' # "postgres"
    <3>1. CASE d = c
      BY <1>1, <1>2, <2>1, <3>1
    <3>2. CASE d # c
      BY <1>1, <1>2, <2>2, <2>3, <3>2 DEF ManagementInv, EffectInv
    <3> QED
      BY <3>1, <3>2
  <2>5. ASSUME NEW d \in Admins
        PROVE  /\ dialect' = "d1" /\ calls'[d].pc \in {"record", "commit"} => calls'[d].done \subseteq effects'
               /\ calls'[d].pc = "answer" => d \in effects' \/ ~Works(d)'
               /\ d \in answered' => calls'[d].pc = "done" /\ (d \in effects' \/ ~Works(d)')
    <3>1. CASE d = c
      BY <1>1, <1>2, <3>1 DEF Works
    <3>2. CASE d # c
      BY <1>1, <1>2, <3>2 DEF ManagementInv, EffectInv, Works
    <3> QED
      BY <3>1, <3>2
  <2> QED
    BY <2>4, <2>5 DEF EffectInv
<1>6. RowsInv'
  <2>1. \A r \in recorded' : r.by \in effects'
    BY <1>2, <1>3 DEF ManagementInv, RowsInv, Works
  <2>2. \A d \in effects' : dialect' # "d1" /\ ~calls'[d].query => \E r \in recorded' : r.by = d
    BY <1>1, <1>2, <1>3 DEF ManagementInv, RowsInv, Works, CallsType, CallRecord
  <2>3. ASSUME NEW r \in recorded', NEW s \in recorded', r.version = s.version PROVE r = s
    BY <1>2, <1>3, <2>3 DEF ManagementInv, RowsInv, Recording
  <2>4. ASSUME NEW d \in Admins, Recording(d)'
        PROVE  /\ dialect' = "d1" => Row(d)' \in recorded'
               /\ dialect' # "d1" => \A r \in recorded' : r.version # calls'[d].version
               /\ \A e \in Admins : Recording(e)' /\ e # d => calls'[e].version # calls'[d].version
    BY <1>1, <1>2, <1>3, <2>4 DEF ManagementInv, RowsInv, Recording, Row
  <2> QED
    BY <2>1, <2>2, <2>3, <2>4 DEF RowsInv
<1> QED
  BY <1>4, <1>5, <1>6 DEF ManagementInv

LEMMA AnswerKeeps ==
  ASSUME ManagementInv, NEW c \in Admins, AnswerCall(c)
  PROVE  ManagementInv'
<1>1. /\ calls' \in [Admins -> CallRecord]
      /\ calls'[c].pc = "done" /\ SameBody(c)
      /\ \A d \in Admins : d # c => calls'[d] = calls[d]
      /\ calls[c].pc = "answer" /\ answered' = answered \cup {c}
      /\ UNCHANGED <<dialect, second, recorded, effects>>
  BY WentOn DEF ManagementInv, AnswerCall, CallAt, Places
<1>5. \A d \in Admins : Sparing(d)'
  BY <1>1 DEF ManagementInv, CarriedInv, Sparing
<1>2. CallsType' /\ CarriedInv'
  BY <1>1, <1>5 DEF ManagementInv, CallsType, CallRecord, CarriedInv, Works
<1>4. EffectInv'
  BY <1>1 DEF ManagementInv, CallsType, CallRecord, EffectInv, Works
<1>3. RowsInv'
  BY <1>1 DEF ManagementInv, CallsType, CallRecord, RowsInv, Recording, Row
<1> QED
  BY <1>2, <1>3, <1>4 DEF ManagementInv

LEMMA ManagementSteps == ManagementInv /\ [ManagementNext]_managementVars => ManagementInv'
<1> SUFFICES ASSUME ManagementInv, [ManagementNext]_managementVars PROVE ManagementInv'
  OBVIOUS
<1>1. CASE Second
  <2>1. UNCHANGED <<dialect, recorded, effects, calls, answered>> /\ second' = second + 1
    BY <1>1 DEF Second
  <2>5. second' \in Nat
    BY <2>1 DEF ManagementInv, CallsType
  <2>6. \A c \in Admins : Sparing(c)' /\ Works(c)' = Works(c)
    BY <2>1 DEF ManagementInv, CarriedInv, Sparing, Works
  <2>2. CallsType' /\ CarriedInv'
    BY <2>1, <2>5, <2>6 DEF ManagementInv, CallsType, CarriedInv
  <2>3. EffectInv'
    BY <2>1 DEF ManagementInv, EffectInv, Works
  <2>4. RowsInv'
    BY <2>1 DEF ManagementInv, RowsInv, Recording, Row
  <2> QED
    BY <2>2, <2>3, <2>4 DEF ManagementInv
<1>2. CASE UNCHANGED managementVars
  BY <1>2 DEF managementVars, ManagementInv, CallsType, CallRecord, CarriedInv, Sparing, EffectInv, RowsInv,
              Recording, Row, Works
<1>3. ASSUME NEW c \in Admins,
             \/ TakeRequest(c) \/ EnsureMigrationTable(c) \/ TakeVersion(c) \/ BeginMigration(c) \/ Fail(c)
             \/ Lose(c)
      PROVE  ManagementInv'
  BY <1>3, Preparing
<1>4. ASSUME NEW c \in Admins, ExecuteStatements(c) \/ Record(c) \/ CommitStatements(c) \/ AnswerCall(c)
      PROVE  ManagementInv'
  BY <1>4, ExecuteKeeps, RecordKeeps, CommitKeeps, AnswerKeeps
<1> QED
  BY <1>1, <1>2, <1>3, <1>4 DEF ManagementNext

\* A migration is in effect exactly when it is recorded, one version names one migration, what was
\* answered 201 is in effect, and a query that is to read only leaves nothing on Postgres and on the
\* others what the list of words does not name: for every number of requests that run side by side,
\* fail or die, on every dialect (migrations.ts, applyMigration; query.ts, executeManagementQuery).
THEOREM ManagementRecorded == ManagementSpec => []RecordedIffApplied
<1>1. ManagementInv => RecordedIffApplied
  <2> SUFFICES ASSUME ManagementInv PROVE RecordedIffApplied
    OBVIOUS
  <2>1. {r.by : r \in recorded} \subseteq effects
    BY DEF ManagementInv, RowsInv
  <2>2. dialect # "d1" => effects \cap {c \in Admins : ~calls[c].query} \subseteq {r.by : r \in recorded}
    BY DEF ManagementInv, RowsInv
  <2>3. \A c \in answered : c \in effects \/ calls[c].statement = "reads"
    BY DEF ManagementInv, CallsType, EffectInv, Works
  <2>4. ASSUME NEW c \in effects \ {d \in Admins : ~calls[d].query}
        PROVE  /\ calls[c].statement # "reads"
               /\ calls[c].readOnly => dialect # "postgres" /\ calls[c].statement = "unlisted"
    <3>1. c \in Admins /\ calls[c].query
      BY DEF ManagementInv, CallsType
    <3>2. calls[c].statement # "reads" /\ (calls[c].readOnly => dialect # "postgres")
      BY <3>1 DEF ManagementInv, EffectInv
    <3>3. calls[c].readOnly => calls[c].statement \in {"reads", "unlisted"}
      BY <3>1 DEF ManagementInv, CarriedInv, Sparing
    <3> QED
      BY <3>2, <3>3
  <2> QED
    BY <2>1, <2>2, <2>3, <2>4 DEF ManagementInv, RowsInv, RecordedIffApplied
<1> QED
  BY ManagementStarts, ManagementSteps, <1>1, PTL DEF ManagementSpec

================================================================================
