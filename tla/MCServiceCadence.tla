-------------------------- MODULE MCServiceCadence --------------------------
(***************************************************************************)
(* ServiceCadence with three timers.  The heartbeat, as in the code's      *)
(* defaults, has the interval of a round; the interval of the ping pair is *)
(* not a multiple of a round, and both delays end within one.              *)
(***************************************************************************)
EXTENDS ServiceCadence

MCConfigured == {"heartbeat", "ping", "isr"}

MCInterval == [heartbeat |-> 2, ping |-> 3, isr |-> 4, physics |-> 1]

MCDelay == [heartbeat |-> 0, ping |-> 1, isr |-> 3, physics |-> 0]

=============================================================================
