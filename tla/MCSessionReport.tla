--------------------------- MODULE MCSessionReport ---------------------------
(***************************************************************************)
(* SessionReport with the joins that bootstrap tells apart (up to three    *)
(* endpoints), the command lines the loaders tell apart, and attempts that *)
(* reach nothing, authenticate, register, see a player or complete.        *)
(***************************************************************************)
EXTENDS SessionReport

Plain ==
  [trace |-> None, files |-> {}, fit |-> TRUE, established |-> {}, keytrace |-> None,
   lifecycle |-> "good", header |-> "auto", claim |-> FALSE]

MCSettings ==
  {Plain,
   [Plain EXCEPT !.header = None],
   [Plain EXCEPT !.header = "file", !.files = {"key", "rupp", "token"}, !.claim = TRUE],
   [Plain EXCEPT !.trace = "good", !.established = {"tx", "rx"}],
   [Plain EXCEPT !.trace = "bad"],
   [Plain EXCEPT !.files = {"key"}],
   [Plain EXCEPT !.established = {"tx"}],
   [Plain EXCEPT !.lifecycle = "bad"]}

Inline ==
  [reached |-> TRUE, script |-> "inline", fetched |-> "object", refused |-> FALSE,
   material |-> TRUE, udmux_ip |-> "u", udmux_port |-> "1", netstack_port |-> "2",
   server_ip |-> None, server_port |-> None, connections |-> <<>>]

MCJoins ==
  {Inline,
   [Inline EXCEPT !.server_ip = "s", !.server_port = "3", !.connections = <<<<"u", "1">>, <<"s", "3">>>>],
   [Inline EXCEPT !.script = "url", !.refused = TRUE, !.netstack_port = "1",
                  !.server_ip = "s", !.server_port = "3"],
   [Inline EXCEPT !.script = "both", !.fetched = "raises", !.refused = TRUE,
                  !.udmux_port = None, !.netstack_port = None, !.server_port = "4"],
   [Inline EXCEPT !.udmux_ip = None, !.material = FALSE, !.connections = <<<<"c", "5">>, <<"c", "5">>>>],
   [Inline EXCEPT !.script = "url", !.fetched = "nothing", !.server_ip = "s", !.server_port = "3"],
   [Inline EXCEPT !.script = None],
   [Inline EXCEPT !.reached = FALSE]}

Registered == {"accepted", "registered"}

MCOutcomes ==
  {{}, {"authenticated"}, {"authenticated"} \cup Registered, Registered \cup {"player"}, Gates}

=============================================================================
