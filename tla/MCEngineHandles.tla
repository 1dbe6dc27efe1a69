-------------------------- MODULE MCEngineHandles --------------------------
(* Two requests of an engine with one place, and the pairs of libraries that *)
(* may be installed: every generation of each, and incomplete ones.          *)
EXTENDS EngineHandles

Talker(abi, frames, batch) == [abi |-> abi, frames |-> frames, batch |-> batch]
Codec(shared, version, begin, finish) ==
  [shared |-> shared, version |-> version, begin |-> begin, finish |-> finish]

MCBuilds ==
  LET talkers == {Talker(0, FALSE, FALSE), Talker(1, FALSE, FALSE), Talker(2, TRUE, FALSE),
                  Talker(3, FALSE, TRUE), Talker(3, TRUE, FALSE), Talker(3, TRUE, TRUE)}
      codecs == {Codec(TRUE, 0, FALSE, FALSE), Codec(TRUE, 2, TRUE, TRUE),
                 Codec(TRUE, 2, TRUE, FALSE), Codec(TRUE, 3, TRUE, TRUE),
                 Codec(FALSE, 2, TRUE, TRUE)}
  IN  [talker : talkers, codec : codecs]
=============================================================================
