------------------------------- MODULE MCEngine -------------------------------
(* Directories of three files: an overlay on w2 or a file of its own, sorted   *)
(* before its base; w2; and an unrelated, duplicate or second derived file.    *)
EXTENDS Prompts

Cfg(c) == [f \in Fields |-> IF f \in DOMAIN c THEN c[f] ELSE "absent"]
Node(id, type, c) == [id |-> id, type |-> type, remove |-> FALSE, wipe |-> FALSE, retry |-> "absent", cfg |-> Cfg(c)]
Gone(id) == [Node(id, "", << >>) EXCEPT !.remove = TRUE]
Wiped(id) == [Node(id, "", << >>) EXCEPT !.wipe = TRUE]
Conn(from, to, port) == [from |-> from, to |-> to, port |-> port]
File(id, extends, trigger, manifest, nodes, conns) ==
  [form |-> "ok", id |-> id, extends |-> extends, trigger |-> trigger,
   manifest |-> manifest, nodes |-> nodes, conns |-> conns]

Own(id) == [fixed |-> id, flex |-> id]
Wires == {Conn("t", "a", "main"), Conn("l", "a", "llm")}
\* A workflow with a trigger, an agent and a model, and further nodes.
Flow(id, chat, agent, manifest, more, wires) ==
  File(id, "absent", "t", manifest,
       <<Node("t", "chat", chat), Node("a", "agent", agent), Node("l", "llm", << >>)>> \o more,
       Wires \cup wires)

Stream == [mode |-> "streaming"]
Search(policy) == <<Node("s", "search", << >>), Node("p", policy, << >>)>>
Searches == {Conn("s", "a", "tool"), Conn("p", "s", "policy")}
Search2 == Search("policy") \o <<Node("s2", "search", << >>)>>
Searches2 == Searches \cup {Conn("s2", "a", "tool"), Conn("p", "s2", "policy")}

Simple(id) == Flow(id, Stream, Own(id), "absent", << >>, {})

Bases ==
  {Simple("w2"),
   Flow("w2", Stream, Own("w2"), "n", Search("policy"), Searches),
   Flow("w2", [mode |-> "either", subject |-> "s"], [legacy |-> "w2"], "off", Search2, Searches2),
   Flow("w2", [mode |-> "single"], Own("w2"), "absent", << >>, {}),
   Flow("w2", Stream, [legacy |-> "w2", flex |-> "w2"], "absent",
        <<Node("u", "ui", << >>)>>, {Conn("u", "a", "tool")}),
   Flow("w2", Stream, Own("w2"), "invalid", Search("plain"), Searches),
   Flow("w2", Stream, [fixed |-> "w2", flex |-> "unset"], "absent", << >>, {}),
   Flow("w2", Stream, Own("w2"), "absent", <<Node("m", "memory", [secret |-> "w2"])>>,
        {Conn("m", "a", "memory")}),
   Flow("w2", Stream, Own("w2"), "absent", Search("policy"), {Conn("s", "a", "tool")}),
   Flow("w2", Stream, Own("w2"), "absent", << >>, {Conn("a", "a", "tool")}),
   Flow("w2", Stream, [fixed |-> "w2", flex |-> "invalid"], "absent", << >>, {}),
   [Simple("w2") EXCEPT !.nodes[1].retry = "ok"], [Simple("w2") EXCEPT !.nodes[3].retry = "bad"],
   [Simple("w2") EXCEPT !.trigger = "l"], [Simple("w2") EXCEPT !.extends = "bad"],
   [Simple("w2") EXCEPT !.form = "malformed"], [Simple("w2") EXCEPT !.form = "unreadable"]}

Overlay(id, nodes, conns) == File(id, "w2", "absent", "absent", nodes, conns)

Overlays(id) ==
  {Overlay(id, <<Node("a", "", Own(id))>>, {}),
   Overlay(id, <<Node("a", "", [fixed |-> id])>>, {}),
   Overlay(id, <<Node("a", "", [fixed |-> id]), Node("a", "", [flex |-> id])>>, {}),
   Overlay(id, <<Node("a", "", Own(id)), Node("a", "", [flex |-> "null"])>>, {}),
   Overlay(id, <<Wiped("a"), Node("a", "", Own(id))>>, {}),
   Overlay(id, <<Node("a", "", Own(id)), Wiped("a")>>, {}),
   Overlay(id, <<Node("a", "", Own(id)), Wiped("a"), Node("a", "", [fixed |-> id])>>, {}),
   Overlay(id, <<Node("a", "", Own(id)), Gone("s")>>, {}),
   Overlay(id, <<Node("a", "", Own(id)), Gone("u")>>, {Conn("u", "a", "tool")}),
   Overlay(id, <<Node("a", "", Own(id)), Node("m", "memory", [secret |-> "null"])>>,
        {Conn("m", "a", "memory")}),
   Overlay(id, <<Gone("a"), Node("b", "agent", Own(id))>>,
        {Conn("t", "b", "main"), Conn("l", "b", "llm")}),
   Overlay(id, <<Node("a", "", Own(id)), [Node("l", "", << >>) EXCEPT !.retry = "ok"]>>, {}),
   [Overlay(id, <<Node("a", "", Own(id)), Node("t", "", [mode |-> "single"])>>, {}) EXCEPT !.manifest = "null"]}

Firsts == Overlays("w1") \cup {Simple("w1"), Simple("w2"), [Simple("w1") EXCEPT !.form = "malformed"]}
Thirds ==
  {Simple("w3"), Simple("w2"), Flow("w3", [mode |-> "streaming", subject |-> "s"], Own("w3"), "n", << >>, {}),
   Overlay("w3", <<Node("a", "", Own("w3"))>>, {}), [Overlay("w3", << >>, {}) EXCEPT !.extends = "w1"]}

MCEdited == {<<Simple("w2")>>}
\* Every first and every third file over two bases, every base between two of each.
MCDirectories ==
  {<<a, b, c>> : a \in Firsts, b \in {Flow("w2", Stream, Own("w2"), "n", Search("policy"), Searches),
                                     Flow("w2", Stream, Own("w2"), "absent", <<Node("m", "memory", [secret |-> "w2"])>>,
                                          {Conn("m", "a", "memory")})}, c \in Thirds}
  \cup {<<a, b, c>> : a \in {Overlay("w1", <<Node("a", "", Own("w1"))>>, {}), Simple("w1")}, b \in Bases,
                      c \in {Simple("w3"), Overlay("w3", <<Node("a", "", Own("w3"))>>, {})}}
  \cup MCEdited
SaverSymmetry == Permutations(Savers)
MCSortedIds == <<"w1", "w2", "w3">>
=============================================================================
