------------------------ MODULE MCMeasurementBuffers ------------------------
(* The two callers of the hub, the measurement and the setting handler, two *)
(* buffers and three measurements of up to two returned buffers.            *)
EXTENDS MeasurementBuffers, TLC

BufferSymmetry == Permutations(Buffers)

=============================================================================
