------------------------------ MODULE VNCTunnel ------------------------------
(***************************************************************************)
(* What the VNC proxy promises one viewer: what it sends after its first   *)
(* line reaches one console, the one the line names, complete and in       *)
(* order, until either side is gone.                                       *)
(***************************************************************************)
EXTENDS Naturals, Sequences

CONSTANTS Consoles, Bytes, Nowhere

VARIABLES
  accepted,   \* what the proxy took from the viewer after the first line
  delivered,  \* what it has written to the console
  console,    \* the console the tunnel leads to
  alive       \* the viewer's connection is open

tunnelVars == <<accepted, delivered, console, alive>>

IsPrefixOf(s, t) == Len(s) <= Len(t) /\ s = SubSeq(t, 1, Len(s))

TunnelInit == accepted = <<>> /\ delivered = <<>> /\ console = Nowhere /\ alive = TRUE

\* Bytes arrive, and may be passed on at once.
Take ==
  /\ alive /\ UNCHANGED <<console, alive>>
  /\ IsPrefixOf(accepted, accepted') /\ accepted' \in Seq(Bytes)
  /\ delivered' \in {delivered, accepted'} /\ (delivered' # delivered => console # Nowhere)

\* The tunnel is dug, once, and everything taken so far goes through.
Dig ==
  /\ console = Nowhere /\ console' \in Consoles
  /\ delivered' = accepted /\ UNCHANGED <<accepted, alive>>

Close == alive' = FALSE /\ UNCHANGED <<accepted, delivered, console>>

TunnelNext == Take \/ Dig \/ Close
TunnelSpec == TunnelInit /\ [][TunnelNext]_tunnelVars

==============================================================================
