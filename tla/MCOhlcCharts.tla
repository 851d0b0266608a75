---------------------------- MODULE MCOhlcCharts ----------------------------
(***************************************************************************)
(* OhlcCharts on a small instance: requests that race for one product,     *)
(* with one poller more than there are products.                           *)
(***************************************************************************)
EXTENDS OhlcCharts
=============================================================================
