------------------------------ MODULE MCNetBoot ------------------------------
(* The files of MCHandoff for the loaders called from elsewhere, and files *)
(* on the server: none at all, of the unknown size, and larger than that.  *)
EXTENDS NetBoot, MCHandoff

MCNetKernelSizes == {0, 512, 65535, 65536, 3 * MiB}
MCNetInitrdSizes == {1, 65535}
MCNetCmdlineLengths == {0, 17}
=============================================================================
