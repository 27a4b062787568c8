------------------------------ MODULE MCQuotes ------------------------------
(* Instance of Quotes: the first id is used for either ticker.                *)
EXTENDS Quotes

CONSTANTS a, b

MCTickers == {a, b}
MCLists   == {<<a>>, <<b, a>>}
=============================================================================
