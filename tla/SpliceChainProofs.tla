------------------------- MODULE SpliceChainProofs -------------------------
(***************************************************************************)
(* A chain of splices implements Pipe, for any number of relays, any       *)
(* buffer size and any placement of the streams that cannot be reset.  The *)
(* inductive invariant counts what each copyOne holds (Copied) and says    *)
(* what a FIN, a reset or a cancelled read anywhere on the path stands for *)
(* (EndsTrue, FaultsReal); no induction along the path is needed, because  *)
(* every stream is compared with the one its agent writes.                 *)
(***************************************************************************)
EXTENDS SpliceChain, TLAPS

\* copyOne holds at most one chunk and has passed on every other.
Copied ==
    \A k \in Copies :
        /\ copy[k] = "read" => wr[Dst(k)] = rd[Src(k)]
        /\ copy[k] = "write" => wr[Dst(k)] + 1 = rd[Src(k)]

NoneMadeUp == \A c \in Chans : wr[c] <= wr[First(c[2])]

EndsTrue ==
    \A c \in Chans : fin[c] = "fin" =>
        \/ fin[First(c[2])] = "fin" /\ wr[c] = wr[First(c[2])]
        \/ Broken /\ c[2] \notin Truthful

FaultsReal == \A c \in Chans : fin[c] = "reset" \/ stop[c] => Broken

IInv == TypeOK /\ Copied /\ NoneMadeUp /\ EndsTrue /\ FaultsReal

-----------------------------------------------------------------------------
(* Where the streams of a path are *)

\* A copy's two channels run in its direction.
LEMMA CopyEnds ==
    ASSUME NEW k \in Copies
    PROVE  /\ Src(k) \in Chans /\ Dst(k) \in Chans /\ Back(Dst(k)) \in Chans
           /\ Src(k)[2] = k[2] /\ Dst(k)[2] = k[2] /\ k[2] \in Dirs
           /\ Dst(k) = <<Dst(k)[1], k[2]>> /\ Dst(k)[1] \in Streams
BY ChainConstants DEF Copies, Chans, Streams, Relays, Dirs, Src, Dst, Back, Rev

\* The ends of a direction are channels; the last one's return is the other's first.
LEMMA AgentEnds ==
    ASSUME NEW d \in Dirs
    PROVE  /\ First(d) \in Chans /\ Last(d) \in Chans
           /\ First(d)[2] = d /\ Last(d)[2] = d /\ Last(d)[1] \in Streams
           /\ Back(Last(d)) = First(Rev(d)) /\ Rev(d) \in Dirs
BY ChainConstants DEF Chans, Streams, Dirs, First, Last, Back, Rev

\* No two ends of the chain are the same channel.
LEMMA EndsApart ==
    ASSUME NEW d \in Dirs, NEW e \in Dirs
    PROVE  /\ First(d) # Last(e)
           /\ First(d) = First(e) => d = e
           /\ Last(d) = Last(e) => d = e
BY ChainConstants, Zenon DEF Dirs, First, Last

\* No relay reads what an agent reads or writes what an agent writes.
LEMMA CopiesInside ==
    ASSUME NEW k \in Copies, NEW d \in Dirs
    PROVE  Src(k) # Last(d) /\ Dst(k) # First(d) /\ Back(Dst(k)) # Last(d)
BY ChainConstants DEF Copies, Relays, Dirs, Src, Dst, First, Last, Back, Rev

\* No two copies read, or write, the same channel.
LEMMA CopiesApart ==
    ASSUME NEW k \in Copies, NEW l \in Copies
    PROVE  /\ Src(k) = Src(l) => k = l
           /\ Dst(k) = Dst(l) => k = l
BY ChainConstants DEF Copies, Relays, Dirs, Src, Dst

\* The invariant holds with nothing sent.
LEMMA InitIInv == Init => IInv
BY CopyEnds, AgentEnds, ChainConstants
   DEF Init, IInv, TypeOK, Copied, NoneMadeUp, EndsTrue, FaultsReal, Chans

\* Every channel belongs to a direction that starts at an agent.
LEMMA ChanFirst ==
    ASSUME NEW c \in Chans
    PROVE  c[2] \in Dirs /\ c[1] \in Streams /\ First(c[2]) \in Chans
BY AgentEnds, Zenon DEF Chans

-----------------------------------------------------------------------------
(* The steps *)

\* What broke stays broken.
LEMMA BrokenKept ==
    ASSUME \A i \in Streams : up'[i] => up[i], \A c \in Chans : stop[c] => stop'[c]
    PROVE  Broken => Broken'
BY AgentEnds, Zenon DEF Broken

\* copyOne reads.
LEMMA CopyReadStep ==
    ASSUME IInv, NEW k \in Copies, CopyRead(k)
    PROVE  IInv'
<1>1. /\ copy[k] = "read" /\ rd[Src(k)] < wr[Src(k)]
      /\ rd' = [rd EXCEPT ![Src(k)] = rd[Src(k)] + 1]
      /\ copy' = [copy EXCEPT ![k] = "write"]
      /\ UNCHANGED <<wr, fin, stop, up, seen>>
  BY Zenon DEF CopyRead, Readable
<1>2. Src(k) \in Chans /\ rd[Src(k)] \in Nat /\ wr[Src(k)] \in Nat
  BY CopyEnds, Zenon DEF IInv, TypeOK
<1>3. TypeOK'
  BY <1>1, <1>2 DEF IInv, TypeOK
<1>4. Copied'
  <2> SUFFICES ASSUME NEW l \in Copies
               PROVE  /\ copy'[l] = "read" => wr[Dst(l)] = rd'[Src(l)]
                      /\ copy'[l] = "write" => wr[Dst(l)] + 1 = rd'[Src(l)]
    BY <1>1, Zenon DEF Copied
  <2>1. CASE l = k
    BY <1>1, <1>2, <2>1, Zenon DEF IInv, TypeOK, Copied
  <2>2. CASE l # k
    BY <1>1, <1>2, <2>2, CopiesApart, CopyEnds, Zenon DEF IInv, TypeOK, Copied
  <2> QED
    BY <2>1, <2>2, Zenon
<1>5. NoneMadeUp' /\ EndsTrue' /\ FaultsReal'
  BY <1>1, Zenon DEF IInv, NoneMadeUp, EndsTrue, FaultsReal, Broken
<1> QED
  BY <1>3, <1>4, <1>5, Zenon DEF IInv

\* copyOne writes what it read.
LEMMA CopyWriteStep ==
    ASSUME IInv, NEW k \in Copies, CopyWrite(k)
    PROVE  IInv'
<1>1. /\ copy[k] = "write" /\ fin[Dst(k)] = "open"
      /\ wr' = [wr EXCEPT ![Dst(k)] = wr[Dst(k)] + 1]
      /\ copy' = [copy EXCEPT ![k] = "read"]
      /\ UNCHANGED <<rd, fin, stop, up, seen>>
  BY Zenon DEF CopyWrite, Writable
<1>2. /\ Src(k) \in Chans /\ Dst(k) \in Chans /\ wr[Dst(k)] \in Nat /\ k[2] \in Dirs
      /\ Src(k)[2] = k[2] /\ Dst(k)[2] = k[2] /\ wr[Dst(k)] + 1 = rd[Src(k)]
  BY <1>1, CopyEnds, Zenon DEF IInv, TypeOK, Copied
<1>3. TypeOK'
  BY <1>1, <1>2 DEF IInv, TypeOK
<1>4. Copied'
  <2> SUFFICES ASSUME NEW l \in Copies
               PROVE  /\ copy'[l] = "read" => wr'[Dst(l)] = rd[Src(l)]
                      /\ copy'[l] = "write" => wr'[Dst(l)] + 1 = rd[Src(l)]
    BY <1>1, Zenon DEF Copied
  <2>1. CASE l = k
    BY <1>1, <1>2, <2>1, Zenon DEF IInv, TypeOK
  <2>2. CASE l # k
    BY <1>1, <1>2, <2>2, CopiesApart, CopyEnds, Zenon DEF IInv, TypeOK, Copied
  <2> QED
    BY <2>1, <2>2, Zenon
<1>5. \A d \in Dirs : wr'[First(d)] = wr[First(d)]
  BY <1>1, CopiesInside, AgentEnds, Zenon DEF IInv, TypeOK
<1>6. NoneMadeUp'
  <2>1. rd[Src(k)] <= wr[Src(k)] /\ wr[Src(k)] <= wr[First(k[2])]
    BY <1>2, Zenon DEF IInv, TypeOK, NoneMadeUp
  <2>2. wr'[Dst(k)] <= wr[First(k[2])]
    BY <1>1, <1>2, <2>1, AgentEnds DEF IInv, TypeOK
  <2> QED
    BY <1>1, <1>2, <1>5, <2>2, ChanFirst DEF IInv, TypeOK, NoneMadeUp
<1>7. EndsTrue' /\ FaultsReal'
  <2>1. \A c \in Chans : fin[c] = "fin" => wr'[c] = wr[c]
    BY <1>1, <1>2, Zenon DEF IInv, TypeOK
  <2> QED
    BY <1>1, <1>5, <2>1, ChanFirst, Zenon DEF IInv, EndsTrue, FaultsReal, Broken
<1> QED
  BY <1>3, <1>4, <1>6, <1>7, Zenon DEF IInv

\* copyOne passes an EOF on.
LEMMA CopyEofStep ==
    ASSUME IInv, NEW k \in Copies, CopyEof(k)
    PROVE  IInv'
<1>1. /\ copy[k] = "read" /\ fin[Src(k)] = "fin" /\ rd[Src(k)] = wr[Src(k)]
      /\ fin' = [fin EXCEPT ![Dst(k)] = "fin"] /\ copy' = [copy EXCEPT ![k] = "eof"]
      /\ UNCHANGED <<wr, rd, stop, up, seen>>
  BY Zenon DEF CopyEof, AtEof
<1>2. /\ Src(k) \in Chans /\ Dst(k) \in Chans /\ k[2] \in Dirs
      /\ Src(k)[2] = k[2] /\ Dst(k)[2] = k[2] /\ wr[Dst(k)] = rd[Src(k)]
  BY <1>1, CopyEnds, Zenon DEF IInv, Copied
<1>3. TypeOK'
  BY <1>1, <1>2, Zenon DEF IInv, TypeOK
<1>4. Copied' /\ NoneMadeUp'
  BY <1>1, Zenon DEF IInv, TypeOK, Copied, NoneMadeUp
<1>5. \A d \in Dirs : fin'[First(d)] = fin[First(d)]
  BY <1>1, CopiesInside, AgentEnds, Zenon DEF IInv, TypeOK
<1>6. EndsTrue'
  <2>1. \/ fin[First(k[2])] = "fin" /\ wr[Dst(k)] = wr[First(k[2])]
        \/ Broken /\ k[2] \notin Truthful
    BY <1>1, <1>2, Zenon DEF IInv, EndsTrue
  <2>2. \A c \in Chans : c # Dst(k) => fin'[c] = fin[c]
    BY <1>1, Zenon DEF IInv, TypeOK
  <2> QED
    BY <1>1, <1>2, <1>5, <2>1, <2>2, ChanFirst DEF IInv, EndsTrue, Broken
<1>7. FaultsReal'
  BY <1>1, <1>2, Zenon DEF IInv, TypeOK, FaultsReal, Broken
<1> QED
  BY <1>3, <1>4, <1>6, <1>7, Zenon DEF IInv

\* A copy fails only when something is broken.
LEMMA CopyFailStep ==
    ASSUME IInv, NEW k \in Copies, CopyFail(k)
    PROVE  IInv'
<1>1. /\ copy' = [copy EXCEPT ![k] = "failed"] /\ UNCHANGED <<wr, rd, up, seen>>
      /\ fin' = [fin EXCEPT ![Dst(k)] = IF Aborter[Dst(k)[1]] THEN "reset" ELSE "fin"]
      /\ stop' \in {stop, [stop EXCEPT ![Back(Dst(k))] = TRUE]}
  BY Zenon DEF CopyFail
<1>2. /\ Src(k) \in Chans /\ Dst(k) \in Chans /\ Back(Dst(k)) \in Chans /\ k[2] \in Dirs
      /\ Dst(k)[2] = k[2] /\ Dst(k) = <<Dst(k)[1], k[2]>> /\ Dst(k)[1] \in Streams
  BY CopyEnds, Zenon
<1>3. Broken
  BY <1>2, ChanFirst, Zenon DEF CopyFail, Failing, ReadFails, WriteFails, IInv, FaultsReal, Broken
<1>4. TypeOK'
  BY <1>1, <1>2, Zenon DEF IInv, TypeOK
<1>5. Broken'
  BY <1>1, <1>2, <1>3, BrokenKept, Zenon DEF IInv, TypeOK
<1>6. Copied' /\ NoneMadeUp'
  BY <1>1, Zenon DEF IInv, TypeOK, Copied, NoneMadeUp
<1>7. \A d \in Dirs : fin'[First(d)] = fin[First(d)]
  BY <1>1, CopiesInside, AgentEnds DEF IInv, TypeOK
<1>8. EndsTrue'
  <2>1. fin'[Dst(k)] = "fin" => k[2] \notin Truthful
    BY <1>1, <1>2, CopiesInside DEF IInv, TypeOK, Truthful
  <2>2. \A c \in Chans : c # Dst(k) => fin'[c] = fin[c]
    BY <1>1, Zenon DEF IInv, TypeOK
  <2> QED
    BY <1>1, <1>2, <1>5, <1>7, <2>1, <2>2, ChanFirst, Zenon DEF IInv, EndsTrue
<1>9. FaultsReal'
  BY <1>5, Zenon DEF FaultsReal
<1> QED
  BY <1>4, <1>6, <1>8, <1>9, Zenon DEF IInv

\* An agent sends.
LEMMA SendStep ==
    ASSUME IInv, NEW d \in Dirs, AgentSend(d)
    PROVE  IInv'
<1>1. /\ fin[First(d)] = "open" /\ wr' = [wr EXCEPT ![First(d)] = wr[First(d)] + 1]
      /\ UNCHANGED <<rd, fin, stop, up, copy, seen>>
  BY Zenon DEF AgentSend, Writable
<1>2. First(d) \in Chans /\ First(d)[2] = d /\ wr[First(d)] \in Nat
  BY AgentEnds, Zenon DEF IInv, TypeOK
<1>3. TypeOK'
  BY <1>1, <1>2 DEF IInv, TypeOK
<1>4. Copied'
  BY <1>1, CopiesInside, CopyEnds, Zenon DEF IInv, TypeOK, Copied
<1>5. NoneMadeUp'
  BY <1>1, <1>2, ChanFirst DEF IInv, TypeOK, NoneMadeUp
<1>6. EndsTrue' /\ FaultsReal'
  BY <1>1, <1>2, EndsApart, ChanFirst, Zenon DEF IInv, TypeOK, EndsTrue, FaultsReal, Broken
<1> QED
  BY <1>3, <1>4, <1>5, <1>6, Zenon DEF IInv

\* An agent half-closes.
LEMMA FinishStep ==
    ASSUME IInv, NEW d \in Dirs, AgentFinish(d)
    PROVE  IInv'
<1>1. /\ fin[First(d)] = "open" /\ fin' = [fin EXCEPT ![First(d)] = "fin"]
      /\ UNCHANGED <<wr, rd, stop, up, copy, seen>>
  BY Zenon DEF AgentFinish, Writable
<1>2. First(d) \in Chans /\ First(d)[2] = d
  BY AgentEnds, Zenon
<1>3. TypeOK' /\ Copied' /\ NoneMadeUp'
  BY <1>1, <1>2, Zenon DEF IInv, TypeOK, Copied, NoneMadeUp
<1>4. EndsTrue' /\ FaultsReal'
  BY <1>1, <1>2, ChanFirst, Zenon DEF IInv, TypeOK, EndsTrue, FaultsReal, Broken
<1> QED
  BY <1>3, <1>4, Zenon DEF IInv

\* An agent resets.
LEMMA AbortStep ==
    ASSUME IInv, NEW d \in Dirs, AgentAbort(d)
    PROVE  IInv'
<1>1. /\ stop' = [stop EXCEPT ![Last(d)] = TRUE]
      /\ fin' = [fin EXCEPT ![First(Rev(d))] =
                    IF fin[First(Rev(d))] = "open" THEN "reset" ELSE fin[First(Rev(d))]]
      /\ seen' = [seen EXCEPT ![d] = IF seen[d] = "open" THEN "error" ELSE seen[d]]
      /\ UNCHANGED <<wr, rd, up, copy>>
  BY AgentEnds, Zenon DEF AgentAbort
<1>2. Last(d) \in Chans /\ First(Rev(d)) \in Chans
  BY AgentEnds, Zenon
<1>3. TypeOK' /\ Copied' /\ NoneMadeUp'
  BY <1>1, <1>2, Zenon DEF IInv, TypeOK, Copied, NoneMadeUp
<1>4. Broken'
  BY <1>1, <1>2, Zenon DEF Broken, IInv, TypeOK
<1>5. \A c \in Chans : fin'[c] = "fin" <=> fin[c] = "fin"
  BY <1>1, <1>2, Zenon DEF IInv, TypeOK
<1>6. EndsTrue' /\ FaultsReal'
  BY <1>1, <1>4, <1>5, ChanFirst, Zenon DEF IInv, EndsTrue, FaultsReal
<1> QED
  BY <1>3, <1>6, Zenon DEF IInv

\* An agent's receive and end, a lost link, and a stutter.
LEMMA EndStep ==
    ASSUME IInv, (\E d \in Dirs : Agent(d)) \/ (\E i \in Streams : LinkLost(i)) \/ UNCHANGED vars
    PROVE  IInv'
<1>1. ASSUME NEW d \in Dirs, AgentReceive(d)
      PROVE  IInv'
  <2>1. /\ rd[Last(d)] < wr[Last(d)] /\ rd' = [rd EXCEPT ![Last(d)] = rd[Last(d)] + 1]
        /\ UNCHANGED <<wr, fin, stop, up, copy, seen>>
    BY <1>1, Zenon DEF AgentReceive, Readable
  <2>2. Last(d) \in Chans
    BY AgentEnds, Zenon
  <2>3. TypeOK'
    BY <2>1, <2>2 DEF IInv, TypeOK
  <2>4. Copied'
    BY <2>1, CopiesInside, CopyEnds, Zenon DEF IInv, TypeOK, Copied
  <2>5. NoneMadeUp' /\ EndsTrue' /\ FaultsReal'
    BY <2>1, Zenon DEF IInv, NoneMadeUp, EndsTrue, FaultsReal, Broken
  <2> QED
    BY <2>3, <2>4, <2>5, Zenon DEF IInv
<1>2. ASSUME NEW d \in Dirs, AgentSeesEnd(d)
      PROVE  IInv'
  <2>1. TypeOK'
    BY <1>2, Zenon DEF AgentSeesEnd, IInv, TypeOK
  <2> QED
    BY <1>2, <2>1, Zenon DEF AgentSeesEnd, IInv, Copied, NoneMadeUp, EndsTrue, FaultsReal, Broken
<1>3. ASSUME NEW i \in Streams, LinkLost(i)
      PROVE  IInv'
  <2>1. up' = [up EXCEPT ![i] = FALSE] /\ UNCHANGED <<wr, rd, fin, stop, copy, seen>>
    BY <1>3, Zenon DEF LinkLost
  <2>2. TypeOK' /\ Broken'
    BY <2>1, Zenon DEF IInv, TypeOK, Broken
  <2> QED
    BY <2>1, <2>2, Zenon DEF IInv, Copied, NoneMadeUp, EndsTrue, FaultsReal
<1>4. CASE UNCHANGED vars
  BY <1>4, Zenon DEF vars, IInv, TypeOK, Copied, NoneMadeUp, EndsTrue, FaultsReal, Broken
<1> QED
  BY <1>1, <1>2, <1>3, <1>4, Zenon DEF Agent

\* The inductive invariant holds of every behaviour of the chain.
THEOREM ChainInvariant == Spec => []IInv
<1>1. ASSUME IInv, [Next]_vars
      PROVE  IInv'
  BY <1>1, CopyReadStep, CopyWriteStep, CopyEofStep, CopyFailStep, SendStep, FinishStep, AbortStep,
     EndStep, Zenon DEF Next, copyOne
<1> QED
  BY <1>1, InitIInv, PTL DEF Spec

-----------------------------------------------------------------------------
(* The refinement *)

\* The copying is invisible to the agents.
LEMMA CopyMaps ==
    ASSUME IInv, NEW k \in Copies, copyOne(k)
    PROVE  UNCHANGED Abstract!vars
<1>1. /\ \A d \in Dirs : wr'[First(d)] = wr[First(d)] /\ fin'[First(d)] = fin[First(d)]
      /\ \A d \in Dirs : rd'[Last(d)] = rd[Last(d)] /\ stop'[Last(d)] = stop[Last(d)]
      /\ UNCHANGED <<up, seen>>
  BY CopiesInside, CopyEnds, AgentEnds
     DEF copyOne, CopyRead, CopyWrite, CopyEof, CopyFail, IInv, TypeOK
<1>2. Broken' = Broken
  BY <1>1, Zenon DEF Broken
<1> QED
  BY <1>1, <1>2, Zenon DEF Abstract!vars

\* A send is Pipe's Send.
LEMMA SendMaps ==
    ASSUME IInv, NEW d \in Dirs, AgentSend(d)
    PROVE  Abstract!Send(d)
<1>1. /\ fin[First(d)] = "open" /\ wr' = [wr EXCEPT ![First(d)] = wr[First(d)] + 1]
      /\ UNCHANGED <<rd, fin, stop, up, copy, seen>>
  BY Zenon DEF AgentSend, Writable
<1>2. [e \in Dirs |-> wr'[First(e)]] =
          [[e \in Dirs |-> wr[First(e)]] EXCEPT ![d] = wr[First(d)] + 1]
  BY <1>1, EndsApart, AgentEnds, Zenon DEF IInv, TypeOK
<1> QED
  BY <1>1, <1>2, Zenon DEF Abstract!Send, Broken

\* A half-close is Pipe's Finish.
LEMMA FinishMaps ==
    ASSUME IInv, NEW d \in Dirs, AgentFinish(d)
    PROVE  Abstract!Finish(d)
<1>1. /\ fin' = [fin EXCEPT ![First(d)] = "fin"]
      /\ UNCHANGED <<wr, rd, stop, up, copy, seen>>
  BY Zenon DEF AgentFinish
<1>2. [e \in Dirs |-> fin'[First(e)] = "fin"] =
          [[e \in Dirs |-> fin[First(e)] = "fin"] EXCEPT ![d] = TRUE]
  BY <1>1, EndsApart, AgentEnds, ZenonT(30) DEF IInv, TypeOK
<1> QED
  BY <1>1, <1>2, Zenon DEF Abstract!Finish, Broken

\* A receive is Pipe's Deliver.
LEMMA ReceiveMaps ==
    ASSUME IInv, NEW d \in Dirs, AgentReceive(d)
    PROVE  Abstract!Deliver(d)
<1>1. /\ seen[d] = "open" /\ rd[Last(d)] < wr[Last(d)]
      /\ rd' = [rd EXCEPT ![Last(d)] = rd[Last(d)] + 1]
      /\ UNCHANGED <<wr, fin, stop, up, copy, seen>>
  BY Zenon DEF AgentReceive, Readable
<1>2. wr[Last(d)] <= wr[First(d)] /\ rd[Last(d)] \in Nat /\ wr[Last(d)] \in Nat /\ wr[First(d)] \in Nat
  BY AgentEnds, Zenon DEF IInv, TypeOK, NoneMadeUp
<1>3. rd[Last(d)] < wr[First(d)]
  BY <1>1, <1>2
<1>4. [e \in Dirs |-> rd'[Last(e)]] =
          [[e \in Dirs |-> rd[Last(e)]] EXCEPT ![d] = rd[Last(d)] + 1]
  BY <1>1, EndsApart, AgentEnds, Zenon DEF IInv, TypeOK
<1> QED
  BY <1>1, <1>3, <1>4, Zenon DEF Abstract!Deliver, Broken

\* An end seen is Pipe's End or Fail.
LEMMA SeesEndMaps ==
    ASSUME IInv, NEW d \in Dirs, AgentSeesEnd(d)
    PROVE  Abstract!End(d) \/ Abstract!Fail(d)
<1>1. seen[d] = "open" /\ UNCHANGED <<wr, rd, fin, stop, up, copy>>
  BY Zenon DEF AgentSeesEnd
<1>2. Last(d) \in Chans /\ Last(d)[2] = d /\ Last(d)[1] \in Streams
  BY AgentEnds, Zenon
<1>3. CASE AtEof(Last(d)) /\ seen' = [seen EXCEPT ![d] = "eof"]
  <2>1. \/ fin[First(d)] = "fin" /\ rd[Last(d)] = wr[First(d)]
        \/ Broken /\ d \notin Truthful
    BY <1>2, <1>3, Zenon DEF AtEof, IInv, EndsTrue
  <2> QED
    BY <1>1, <1>3, <2>1, Zenon DEF Abstract!End, Broken
<1>4. CASE ReadFails(Last(d)) /\ seen' = [seen EXCEPT ![d] = "error"]
  <2>1. Broken
    BY <1>2, <1>4, Zenon DEF ReadFails, IInv, FaultsReal, Broken
  <2> QED
    BY <1>1, <1>4, <2>1, Zenon DEF Abstract!Fail, Broken
<1> QED
  BY <1>3, <1>4, Zenon DEF AgentSeesEnd

\* A reset is Pipe's Break.
LEMMA AbortMaps ==
    ASSUME IInv, NEW d \in Dirs, AgentAbort(d)
    PROVE  Abstract!Break
<1>1. /\ stop' = [stop EXCEPT ![Last(d)] = TRUE]
      /\ fin' = [fin EXCEPT ![First(Rev(d))] =
                    IF fin[First(Rev(d))] = "open" THEN "reset" ELSE fin[First(Rev(d))]]
      /\ seen' = [seen EXCEPT ![d] = IF seen[d] = "open" THEN "error" ELSE seen[d]]
      /\ UNCHANGED <<wr, rd, up, copy>>
  BY AgentEnds, Zenon DEF AgentAbort
<1>2. Broken'
  BY <1>1, AgentEnds, Zenon DEF Broken, IInv, TypeOK
<1>3. \A e \in Dirs : (fin'[First(e)] = "fin") = (fin[First(e)] = "fin")
  BY <1>1, AgentEnds, Zenon DEF IInv, TypeOK
<1>4. seen' = [e \in Dirs |-> IF e \in {d} /\ seen[e] = "open" THEN "error" ELSE seen[e]]
  BY <1>1, Zenon DEF IInv, TypeOK
<1>5. Broken' = TRUE
  BY <1>2, Zenon DEF Broken
<1>6. {d} \in SUBSET Dirs
  OBVIOUS
<1> QED
  BY <1>1, <1>3, <1>4, <1>5, <1>6, Zenon DEF Abstract!Break

\* A lost link is Pipe's Break.
LEMMA LostMaps ==
    ASSUME IInv, NEW i \in Streams, LinkLost(i)
    PROVE  Abstract!Break
<1>1. up' = [up EXCEPT ![i] = FALSE] /\ UNCHANGED <<wr, rd, fin, stop, copy, seen>>
  BY Zenon DEF LinkLost
<1>2. Broken' = TRUE
  BY <1>1, Zenon DEF Broken, IInv, TypeOK
<1>3. seen' = [e \in Dirs |-> IF e \in {} /\ seen[e] = "open" THEN "error" ELSE seen[e]]
  BY <1>1, Zenon DEF IInv, TypeOK
<1>4. {} \in SUBSET Dirs
  OBVIOUS
<1> QED
  BY <1>1, <1>2, <1>3, <1>4, Zenon DEF Abstract!Break

(***************************************************************************)
(* Bidirectional and copyOne keep the promise of splice.go over any number *)
(* of relays: bytes arrive in order, an end of file is the sender's and    *)
(* comes after all its bytes (unless a stream on the way cannot be reset), *)
(* and an agent sees an error only when a link failed or an agent gave up. *)
(***************************************************************************)
THEOREM ChainIsPipe == Spec => ImplementsPipe
<1>1. Init => Abstract!Init
  <2> SUFFICES ASSUME Init PROVE Abstract!Init
    OBVIOUS
  <2>1. Broken = FALSE
    BY AgentEnds, Zenon DEF Init, Broken
  <2> QED
    BY <2>1, AgentEnds, Zenon DEF Init, Abstract!Init
<1>2. ASSUME IInv, [Next]_vars
      PROVE  [Abstract!Next]_(Abstract!vars)
  <2>1. CASE UNCHANGED vars
    BY <2>1, Zenon DEF vars, Abstract!vars, Broken
  <2>2. ASSUME NEW d \in Dirs, AgentSend(d) \/ AgentFinish(d) \/ AgentAbort(d) \/ Agent(d)
        PROVE  Abstract!Next
    BY <1>2, <2>2, SendMaps, FinishMaps, AbortMaps, ReceiveMaps, SeesEndMaps, Zenon
       DEF Agent, Abstract!Next
  <2>3. ASSUME NEW i \in Streams, LinkLost(i)
        PROVE  Abstract!Next
    BY <1>2, <2>3, LostMaps, Zenon DEF Abstract!Next
  <2> QED
    BY <1>2, <2>1, <2>2, <2>3, CopyMaps, Zenon DEF Next
<1> QED
  BY <1>1, <1>2, ChainInvariant, PTL DEF Spec, Abstract!Spec, ImplementsPipe
=============================================================================
