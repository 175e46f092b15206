--------------------------- MODULE MCConformance ---------------------------
(***************************************************************************)
(* Two manifests: a plain one, and one that skips an entry and names a     *)
(* scenario twice, with different inputs.  A second run meets what the     *)
(* first one left, under the same or the other manifest.                   *)
(***************************************************************************)
EXTENDS Conformance

Entry(name, expected, input, selected) ==
    [name |-> name, expected |-> expected, input |-> input, selected |-> selected]

MCManifests ==
    { << Entry("leaf", "CLOSED", "d1", TRUE), Entry("stale", "REFUTED", "d2", TRUE) >>,
      << Entry("leaf", "CLOSED", "d1", TRUE), Entry("comment", "CLOSED", "d1", FALSE),
         Entry("leaf", "UNKNOWN", "d2", TRUE) >> }
=============================================================================
