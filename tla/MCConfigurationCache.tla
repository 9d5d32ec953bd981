------------------------ MODULE MCConfigurationCache ------------------------
(* ConfigurationCache on small instances.                                  *)
EXTENDS ConfigurationCache

CONSTANTS r1, r2
=============================================================================
