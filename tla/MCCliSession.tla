----------------------------- MODULE MCCliSession ----------------------------
(* Sessions of three commands, one of them doctor if any, in environments   *)
(* that differ from the default in one variable or two.                     *)
EXTENDS CliSession

Default == [apiKey |-> "unset", batchId |-> "unset", actPublisher |-> Unset, ethRpc |-> FALSE]

\* The endpoint of Ethereum is set together with a good API key, the batch
\* together with the publisher's own key.
FewSettings ==
    {Default} \cup {[Default EXCEPT !.apiKey = k] : k \in {"empty", "rejected"}}
    \cup {[Default EXCEPT !.apiKey = "good", !.ethRpc = TRUE], [Default EXCEPT !.batchId = "foreign"],
          [Default EXCEPT !.batchId = "own", !.actPublisher = NodeKey]}
    \cup {[Default EXCEPT !.actPublisher = p] : p \in {GatewayKey, Malformed}}

\* To begin with, a host is down, or an answer garbled, or a node slow, or the
\* node not as it should be: one of these, or a host and the node.
Usable == [kind |-> "node", reports |-> TRUE, batch |-> "good", slow |-> FALSE]

MostlyUp ==
    {w \in Worlds : ~w.garbled /\ ~w.bee.slow
          /\ IF w.bee \in NoNode \cup {Usable} THEN Cardinality(w.hosts) >= 2 ELSE w.hosts = Hosts}
    \cup {w \in Worlds : w.hosts = Hosts /\ w.bee.reports /\ w.bee.batch \in {"shallow", "good"}
          /\ w.garbled # w.bee.slow}

ThreeCommands == <<{"doctor", "issue"}, {"scan", "issue"}, {"grant", "revoke"}>>

DefaultOnly == {Default}
AllUp == {[hosts |-> Hosts, garbled |-> FALSE, bee |-> Usable]}
RevokeThenGrant == <<{"issue"}, {"revoke"}, {"grant"}>>
=============================================================================
