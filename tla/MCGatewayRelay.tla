--------------------------- MODULE MCGatewayRelay ---------------------------
(* Messages of up to three commands, one short of the wrap of the index.   *)
EXTENDS GatewayRelay

MCMessages ==
  LET plain    == [command |-> Command, postDelayMs |-> None]
      delayed  == [command |-> Command, postDelayMs |-> 2]
      pause    == [command |-> None, postDelayMs |-> 2]
      noPause  == [command |-> None, postDelayMs |-> 0]
      neither  == [command |-> None, postDelayMs |-> None]
  IN  {<< >>, <<delayed, plain>>, <<noPause>>, <<plain, pause>>,
       <<neither, neither, neither>>}

\* Commands alone, one or two in a message.
MCCommands ==
  LET plain == [command |-> Command, postDelayMs |-> None]
  IN  {<<plain>>, <<plain, plain>>}
=============================================================================
