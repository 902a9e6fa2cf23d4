--------------------------- MODULE MCConsumedData ---------------------------
(* Two entries for one output, c1 of class 1 with variable size and c2 of     *)
(* class 0 with fixed size, and c3 that consumes heartbeats only; all have    *)
(* the same configuration assembly.                                          *)
EXTENDS ConsumedData, TLC

CONSTANTS c1, c2, c3, out, hb, cfg

Per(x1, x2, x3) == (c1 :> x1) @@ (c2 :> x2) @@ (c3 :> x3)

MCClass == Per(1, 0, 1)
MCFixed == Per(FALSE, TRUE, TRUE)
MCHeadered == Per(TRUE, FALSE, FALSE)
MCAllSequenced == Per(TRUE, TRUE, TRUE)
MCPlain == Per(TRUE, FALSE, TRUE)
MCOutput == Per(out, out, hb)
MCConfig == Per(cfg, cfg, cfg)
MCBases16 == Per({0, 2, 5}, {0}, {0})
MCMaxSent == Per(6, 3, 0)

MCWordsOf(d) == IF d = 3 THEN 1 ELSE IF d = 4 THEN 3 ELSE 2
MCRunOf(d) == IF d < 5 THEN 0 ELSE 1
MCEdits == {Mark(0, 9)}
MCConfigData == Per({<<Mark(0, 1)>>}, {<<Mark(0, 2), Mark(0, 2)>>}, {<<Mark(0, 2), Mark(0, 2)>>})
=============================================================================
