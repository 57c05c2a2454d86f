-------------------------- MODULE MCHistoryList --------------------------
(* A small instance of HistoryList for TLC: the finger moves by less than  *)
(* a row, or past the whole window.                                        *)
EXTENDS HistoryList

MCDrags == {-4, -1, 1, 4}

=============================================================================
