--------------------------- MODULE MCCiteGrouping ---------------------------
(* Instances of CiteGrouping for TLC: four cites, two rendered names. *)
EXTENDS CiteGrouping

MCNumCites == 4
MCTwoCites == 2
MCAnyAffix == BOOLEAN
MCNoAffix == {FALSE}
MCCnums == {1, 2, 3}
MCNoCnums == {}
MCYearModes == {"None", "Year", "YearSuffix"}
MCYear == {"Year"}
MCCitationNumber == {"CitationNumber"}
=============================================================================
