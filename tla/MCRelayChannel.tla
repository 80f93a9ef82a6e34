---------------------------- MODULE MCRelayChannel ----------------------------
EXTENDS RelayChannel, FiniteSets
Pipe == INSTANCE RelayPipe WITH
          Sessions <- Sessions, Byte <- Byte, phase <- phase, written <- written,
          served <- served, fetched <- fetched, got <- got
RefinesPipe == Pipe!PipeSpec
================================================================================
