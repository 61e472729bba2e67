------------------------------ MODULE Derivation ------------------------------
(***************************************************************************)
(* Workflow documents: engine/loader's derivation (derive.go) and the      *)
(* checks of LoadOne that precede the nodes' Init, as operators.  A config *)
(* is a function on Fields; a text is the id of the workflow whose file it *)
(* was written in, "unset" one whose ${VAR} has no value, "invalid" one    *)
(* with a template the renderer does not know.  Field "other" stands for   *)
(* all else that a factory may reject ("bad"), "secret" for a sensitive    *)
(* name in literal form.  JSON syntax, versions and repeated connections   *)
(* are left out.                                                           *)
(***************************************************************************)
EXTENDS Integers, Sequences, FiniteSets, SequencesExt

Fields == {"fixed", "flex", "legacy", "subject", "mode", "other", "secret"}
NoCfg == [f \in Fields |-> "absent"]
Text(v) == IF v \in {"absent", "null"} THEN "" ELSE v

\* A null of the overlay deletes, a value replaces.
Over(b, o) == CASE o = "null" -> "absent" [] o = "absent" -> b [] OTHER -> o
deepMerge(base, overlay) == [f \in Fields |-> Over(base[f], overlay[f])]

\* {"config": null} (wipe) deletes the config with all that was in it.
mergeNode(n, o) ==
  [n EXCEPT !.type = IF o.type = "" THEN @ ELSE o.type,
            !.retry = Over(@, o.retry),
            !.cfg = IF o.wipe THEN NoCfg ELSE deepMerge(@, o.cfg)]

-----------------------------------------------------------------------------
Ids(nodes) == {nodes[i].id : i \in DOMAIN nodes}
Removed(overlay) == {overlay[i].id : i \in {j \in DOMAIN overlay : overlay[j].remove}}

\* A base node with the overlay's entries for its id applied, in order.
Patched(node, overlay) ==
  LET merged[k \in 0..Len(overlay)] ==
        IF k = 0 THEN node
        ELSE IF overlay[k].id # node.id \/ overlay[k].remove THEN merged[k - 1]
        ELSE mergeNode(merged[k - 1], overlay[k])
  IN  merged[Len(overlay)]

\* Where the base repeats an id, entries go to its last node.
Shadowed(base, i) == \E j \in DOMAIN base : j > i /\ base[j].id = base[i].id
PatchedNodes(base, overlay) ==
  [i \in DOMAIN base |-> IF Shadowed(base, i) THEN base[i] ELSE Patched(base[i], overlay)]

\* The elements of s at the positions K, in order.
Selected(s, K) ==
  LET out[k \in 0..Len(s)] ==
        IF k = 0 THEN << >>
        ELSE IF k \in K THEN Append(out[k - 1], s[k])
        ELSE out[k - 1]
  IN  out[Len(s)]

mergeNodes(base, overlay) ==
  Selected(PatchedNodes(base, overlay), {i \in DOMAIN base : base[i].id \notin Removed(overlay)})
    \o Selected(overlay, {i \in DOMAIN overlay : ~overlay[i].remove /\ overlay[i].id \notin Ids(base)})

OverlayNodesOK(base, overlay) ==
  /\ "" \notin Ids(overlay)
  /\ Removed(overlay) \subseteq Ids(base)

\* What the overlay itself says of node id, over all its entries for it.
overlayPrompts(overlay, id) ==
  LET cfg[k \in 0..Len(overlay)] ==
        IF k = 0 THEN NoCfg
        ELSE IF overlay[k].id = id THEN deepMerge(cfg[k - 1], overlay[k].cfg)
        ELSE cfg[k - 1]
  IN  cfg[Len(overlay)]

\* A bug: ownership is checked on the merged config.
enforceMergedPrompts(merged, overlay) ==
  \A n \in ToSet(merged) : n.type = "agent" =>
    \A f \in {"fixed", "flex"} : Text(n.cfg[f]) # ""

\* Every agent of the merged document has both prompts from the overlay.
enforcePromptOwnership(merged, overlay) ==
  \A n \in ToSet(merged) : n.type = "agent" =>
    \A f \in {"fixed", "flex"} : Text(overlayPrompts(overlay, n.id)[f]) # ""

Dangling(c, nodes) == ~({c.from, c.to} \subseteq Ids(nodes))

\* Base connections that lost an end are pruned, the overlay's must have both.
mergeConnections(base, overlay, nodes) == {c \in base : ~Dangling(c, nodes)} \cup overlay

MergeOK(base, overlay) ==
  LET nodes == mergeNodes(base.nodes, overlay.nodes) IN
  /\ overlay.id # ""
  /\ OverlayNodesOK(base.nodes, overlay.nodes)
  /\ enforcePromptOwnership(nodes, overlay.nodes)
  /\ \A c \in overlay.conns : ~Dangling(c, nodes)

\* derive.go:114 merges manifests key by key; here a manifest is only the name it
\* gives, or that it is off or invalid, and an overlay's replaces its base's.
MergeDerived(base, overlay) ==
  LET nodes == mergeNodes(base.nodes, overlay.nodes) IN
  [form |-> "ok", id |-> overlay.id, extends |-> "absent",
   trigger |-> Over(base.trigger, overlay.trigger),
   manifest |-> Over(base.manifest, overlay.manifest),
   nodes |-> nodes,
   conns |-> mergeConnections(base.conns, overlay.conns, nodes)]

-----------------------------------------------------------------------------
(* The checks of LoadOne on a document that has been resolved and decoded.  *)

Resolves(d) == \A n \in ToSet(d.nodes), f \in Fields : n.cfg[f] # "unset"
ValidateSensitiveFields(d) == \A n \in ToSet(d.nodes) : n.cfg["secret"] = "absent"

validateEnvelope(d) ==
  /\ d.id # "" /\ d.conns # {}
  /\ Cardinality(Ids(d.nodes)) = Len(d.nodes)
  /\ d.trigger \in Ids(d.nodes)
  /\ \A c \in d.conns : ~Dangling(c, d.nodes)

\* The prompt an agent node is built with; "legacy" is systemMessage.
FixedPrompt(n) == IF Text(n.cfg["fixed"]) # "" THEN n.cfg["fixed"] ELSE Text(n.cfg["legacy"])
FlexPrompt(n) == Text(n.cfg["flex"])

AgentFactory(n) == FixedPrompt(n) # ""
ChatFactory(n) == n.cfg["mode"] \in {"streaming", "single", "either"}

FactoryAccepts(n) ==
  /\ n.type \in {"chat", "agent", "llm", "memory", "search", "policy", "plain", "ui"}
  /\ n.cfg["other"] # "bad"
  /\ n.type = "agent" => AgentFactory(n)
  /\ n.type = "chat" => ChatFactory(n)

RoleOf(t) ==
  CASE t \in {"policy", "plain"} -> "policy" [] t \in {"search", "ui"} -> "tool" [] OTHER -> t

\* Only nodes of three roles may have a retry block, and it must parse.
parseRetryByNode(n) ==
  n.retry # "absent" => RoleOf(n.type) \in {"tool", "agent", "llm"} /\ n.retry # "bad"

validateAllowedTemplates(n) ==
  n.type = "agent" => \A f \in {"fixed", "flex", "legacy"} : n.cfg[f] # "invalid"

\* Input ports: how many peers they take and of what role.
AgentPorts ==
  {[name |-> "main", least |-> 1, most |-> 1, role |-> ""],
   [name |-> "llm", least |-> 1, most |-> 1, role |-> "llm"],
   [name |-> "memory", least |-> 0, most |-> 1, role |-> "memory"],
   [name |-> "tool", least |-> 0, most |-> 99, role |-> "tool"]}
SearchPorts == {[name |-> "policy", least |-> 1, most |-> 1, role |-> "policy"]}
InputPorts(t) == CASE t = "agent" -> AgentPorts [] t = "search" -> SearchPorts [] OTHER -> {}

TypeOf(d, id) == (CHOOSE n \in ToSet(d.nodes) : n.id = id).type
Peers(d, id, port) == {c.from : c \in {x \in d.conns : x.to = id /\ x.port = port}}

ValidateConnections(d) ==
  /\ \A c \in d.conns : \E p \in InputPorts(TypeOf(d, c.to)) : p.name = c.port
  /\ \A id \in Ids(d.nodes) : \A p \in InputPorts(TypeOf(d, id)) :
       LET peers == Peers(d, id, p.name) IN
       /\ Cardinality(peers) \in p.least..p.most
       /\ p.role # "" => \A q \in peers : RoleOf(TypeOf(d, q)) = p.role

Preds(d, id) == {c.from : c \in {x \in d.conns : x.to = id}}

\* Kahn's algorithm orders all nodes unless some feed each other in a circle.
TopoOrders(d) ==
  ~\E S \in SUBSET Ids(d.nodes) : S # {} /\ \A id \in S : Preds(d, id) \cap S # {}

Loadable(d) ==
  /\ d.form = "ok"
  /\ Resolves(d) /\ ValidateSensitiveFields(d) /\ validateEnvelope(d)
  /\ \A n \in ToSet(d.nodes) :
       FactoryAccepts(n) /\ parseRetryByNode(n) /\ validateAllowedTemplates(n)
  /\ ValidateConnections(d) /\ TopoOrders(d)
=============================================================================
