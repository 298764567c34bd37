-------------------------- MODULE MCCounterfeiter --------------------------
(***************************************************************************)
(* Model checking of Counterfeiter with all methods of the two fakes.      *)
(***************************************************************************)
EXTENDS Counterfeiter, TLC

AllMethods == {"SendAndClose", "Recv", "SetHeader", "SendHeader", "SetTrailer", "Context", "SendMsg", "RecvMsg",
               "CreateDestinationRuleResources", "CreateGatewayResources", "CreateServiceEntryResources",
               "CreateSidecarResources", "CreateVirtualServiceResources", "EmptyResponse"}

Interchangeable == Permutations(Goroutines)
=============================================================================
