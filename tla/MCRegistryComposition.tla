----------------------- MODULE MCRegistryComposition -----------------------
(***************************************************************************)
(* The TLC instance of RegistryComposition: two concurrent batches over    *)
(* three names, and one reader.  The reports make every verdict of         *)
(* validateRegistration happen, and batches collide in every way.          *)
(***************************************************************************)
EXTENDS RegistryComposition

MCReport(name, policy, enabled, sound) ==
    [name |-> name, policy |-> policy, enabled |-> enabled, sound |-> sound]

MCReports ==
    {MCReport(1, "required", "yes", TRUE), MCReport(2, "", "no", TRUE),
     MCReport(2, "degraded_allowed", "no", TRUE), MCReport(3, "informational", "panics", TRUE),
     MCReport(1, "optional", "yes", FALSE)}
=============================================================================
