------------------------- MODULE MCComponentLoading -------------------------
(* A guest with a service, one that reads the clock, one that loops, and one *)
(* with nothing to ask for.                                                  *)
EXTENDS ComponentLoading

CONSTANTS signer, ticker, spinner, answer

MCImports == [c \in Components |->
  CASE c = signer -> {"keystore", "wasi"}
    [] c = ticker -> {"monotonic-clock"}
    [] OTHER      -> {}]

MCManifests == {{"keystore"}, {"monotonic-clock"}, {"keystore", "filesystem"}, {"filesystem"}}
=============================================================================
