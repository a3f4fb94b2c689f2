--------------------------- MODULE MCSpliceChain ---------------------------
(***************************************************************************)
(* A small instance of SpliceChain: two relays, the consumer's agent on    *)
(* the TCP+yamux fallback, and a consumer that sends enough to fill the    *)
(* provider's window and leave the provider's relay in Write behind it.    *)
(***************************************************************************)
EXTENDS SpliceChain

FallbackConsumer == [i \in Streams |-> i # 0]
ConsumerSends == [d \in Dirs |-> IF d = "fwd" THEN 2 ELSE 0]
=============================================================================
