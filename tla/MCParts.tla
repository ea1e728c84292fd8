-------------------------------- MODULE MCParts --------------------------------
(***************************************************************************)
(* The parts of the remote that keep a small state of their own, checked    *)
(* one at a time: which one takes the steps is chosen at the start.         *)
(*                                                                         *)
(* The contacts are two keys; a window and two periods of a few calls let   *)
(* every count run out.  A division is linear in the message, so the single *)
(* bits of a byte, none and all of them are enough, in messages of up to    *)
(* two bytes.  The parser is fed every stream of bytes, of four values.     *)
(***************************************************************************)
EXTENDS ByteQueue, Keys, Menu, StatusLed, PowerControl, Crc, CrcLib, FrameParser, SequencesExt

VARIABLE part      \* the part that takes the steps

partsVars == <<part, vars, keysVars, menuVars, ledVars, powerVars, crcVars, parserVars>>

MCContacts == <<"up", "ok">>

SampleBytes == {{}, 0..7} \cup {{b} : b \in 0..7}
MCMessages == {<<>>} \cup {<<b>> : b \in SampleBytes} \cup {<<b, c>> : b, c \in SampleBytes}

MCCrc(s) == FoldLeft(LAMBDA x, b : (3 * x + b + 1) % W, 0, s)

PartsInit ==
  /\ part \in {"queue", "keys", "menu", "led", "power", "crc", "parser"}
  /\ QueueInit /\ KeysInit /\ MenuInit /\ LedInit /\ PowerInit /\ CrcInit
  /\ ParserInit
  /\ part # "crc" => function = crc8_maxim /\ message = <<>>

InQueue ==
  /\ part = "queue" /\ Next
  /\ UNCHANGED <<part, keysVars, menuVars, ledVars, powerVars, crcVars, parserVars>>

InKeys ==
  /\ part = "keys" /\ KeysNext
  /\ UNCHANGED <<part, vars, menuVars, ledVars, powerVars, crcVars, parserVars>>

InMenu ==
  /\ part = "menu" /\ MenuNext
  /\ UNCHANGED <<part, vars, keysVars, ledVars, powerVars, crcVars, parserVars>>

InLed ==
  /\ part = "led" /\ LedNext
  /\ UNCHANGED <<part, vars, keysVars, menuVars, powerVars, crcVars, parserVars>>

InPower ==
  /\ part = "power" /\ PowerControlHandle
  /\ UNCHANGED <<part, vars, keysVars, menuVars, ledVars, crcVars, parserVars>>

\* A function that has returned takes no further step.
InCrc ==
  /\ part = "crc" /\ (CrcNext \/ (returned /\ UNCHANGED crcVars))
  /\ UNCHANGED <<part, vars, keysVars, menuVars, ledVars, powerVars, parserVars>>

InParser ==
  /\ part = "parser" /\ ParserNext
  /\ UNCHANGED <<part, vars, keysVars, menuVars, ledVars, powerVars, crcVars>>

PartsNext == InQueue \/ InKeys \/ InMenu \/ InLed \/ InPower \/ InCrc \/ InParser

PartsSpec == PartsInit /\ [][PartsNext]_partsVars
=============================================================================
