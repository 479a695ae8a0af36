--------------------------- MODULE SocketChannel ----------------------------
(***************************************************************************)
(* What a WorldSocket promises to those who send: packets are accepted one *)
(* after another and their bytes reach the peer in that order, none left   *)
(* out and none twice, as long as the connection is up; whatever threads   *)
(* they come from and however the writes are cut.                          *)
(***************************************************************************)
EXTENDS Integers, SequencesExt

CONSTANTS
  Packets,
  Size                  \* packet -> its length

VARIABLES
  accepted,             \* the packets accepted, in order
  wire,                 \* the bytes that were given to the network
  up                    \* the connection takes bytes

channelVars == <<accepted, wire, up>>

Bytes(p) == [k \in 1 .. Size[p] |-> <<p, k>>]
Stream == FlattenSeq([k \in DOMAIN accepted |-> Bytes(accepted[k])])

Init == accepted = << >> /\ wire = << >> /\ up = TRUE

Accept ==
  /\ \E p \in Packets : accepted' = Append(accepted, p)
  /\ UNCHANGED <<wire, up>>

Transmit ==
  /\ up
  /\ wire' # wire /\ IsPrefix(wire, wire') /\ IsPrefix(wire', Stream)
  /\ UNCHANGED <<accepted, up>>

Down == up' = FALSE /\ UNCHANGED <<accepted, wire>>

Next == Accept \/ Transmit \/ Down

Spec == Init /\ [][Next]_channelVars
=============================================================================
