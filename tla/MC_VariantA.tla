------------------------------ MODULE MC_VariantA ------------------------------
(***************************************************************************)
(* An instance of VariantA for TLC: a store of records and a store of      *)
(* lists, behind two servers whose lags differ.                            *)
(***************************************************************************)
EXTENDS VariantAStores

\* Payments are the slowest source, and are not cached.
Lags == [v \in Servers |-> IF v = "payments" THEN 1 ELSE 0]
Ttls == [v \in Servers |-> IF v = "payments" THEN 0 ELSE 1]

\* The agents' tokens of variants A and B.
TokenScopes == [a |-> Servers, b |-> {"context"}]

\* A chargeback with the rejected return that follows it.
ChargebackBatches == {<<"payment_events", "returns">>}
===============================================================================
