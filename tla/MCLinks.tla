--------------------------------- MODULE MCLinks ---------------------------------
(***************************************************************************)
(* What the battery controller sends, logs, saves and tells: the serial     *)
(* sender, the log, the frames and their parsers, the files and the HMI.    *)
(* They share no state, so that one instance checks them side by side: part *)
(* says which of them runs, and the others stay as they are initially.      *)
(***************************************************************************)
EXTENDS Duart, LogRing, Framing, Nvm, HmiSerial

VARIABLE part

SomeMessages == {<<0>>, <<1, 0>>, <<0, 1, 1>>}
\* A frame without a sync byte inside, one with some in the payload, and one whose
\* CRC looks like a sync byte and a length.
SomePayloads == {<<1, 0>>, <<4, 4>>, <<0>>}
SomeCrc == [p \in SomePayloads |->
              CASE p = <<1, 0>> -> <<0, 1>> [] p = <<4, 4>> -> <<1, 0>> [] OTHER -> <<4, 1>>]

otherThanDuart == << logVars, framingVars, nvmVars, hmiVars >>
otherThanLog == << duartVars, framingVars, nvmVars, hmiVars >>
otherThanFraming == << duartVars, logVars, nvmVars, hmiVars >>
otherThanNvm == << duartVars, logVars, framingVars, hmiVars >>
otherThanHmi == << duartVars, logVars, framingVars, nvmVars >>
linkVars == << part, duartVars, logVars, framingVars, nvmVars, hmiVars >>

LinksInit ==
  /\ part \in {"duart", "log", "framing", "nvm", "hmi"}
  /\ DuartInit /\ LogInit /\ FramingInit /\ NvmInit /\ HmiInit
  /\ part = "nvm" \/ file = [name \in Files |-> "none"]

LinksNext ==
  /\ UNCHANGED part
  /\ \/ part = "duart" /\ DuartNext /\ UNCHANGED otherThanDuart
     \/ part = "log" /\ LogNext /\ UNCHANGED otherThanLog
     \/ part = "framing" /\ FramingNext /\ UNCHANGED otherThanFraming
     \/ part = "nvm" /\ NvmNext /\ UNCHANGED otherThanNvm
     \/ part = "hmi" /\ HmiNext /\ UNCHANGED otherThanHmi

\* DuartFairness, of the part that runs.
LinksFairness ==
  /\ WF_duartVars(part = "duart" /\ SendStep)
  /\ WF_duartVars(part = "duart" /\ TxComplete)
  /\ WF_duartVars(part = "duart" /\ DisableTx)

LinksSpec == LinksInit /\ [][LinksNext]_linkVars /\ LinksFairness
===============================================================================
