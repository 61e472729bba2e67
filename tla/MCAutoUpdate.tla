---------------------------- MODULE MCAutoUpdate ----------------------------
(* AutoUpdate on a small market of models: two releases and both forms of   *)
(* one, a second prefix, another family, and an id that cannot be parsed.   *)
EXTENDS AutoUpdate

Id(p, f, v, d) == [prefix |-> p, family |-> f, ver |-> v, form |-> d]

MCIds == {Id("us", "opus", 1, "bare"), Id("us", "opus", 1, "dated"),
          Id("us", "opus", 2, "bare"), Id("global", "opus", 2, "bare"),
          Id("us", "sonnet", 3, "bare"), Id("", "legacy", 0, "bare")}
=============================================================================
