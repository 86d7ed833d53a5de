----------------------------- MODULE MCStdFetch -----------------------------
(* Two compilers: the second brings a package beside std, and a return to
   the first drops it again. *)
EXTENDS StdFetch

MCCratesOf == <<{}, {"new"}>>
MCItems == <<"src", "Cargo.toml">>
=============================================================================
