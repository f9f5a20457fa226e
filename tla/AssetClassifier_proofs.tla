------------------------ MODULE AssetClassifier_proofs ------------------------
(***************************************************************************)
(* The two asset classifiers against spec 4.7, for every set of            *)
(* identities and asset names.                                             *)
(***************************************************************************)
EXTENDS AssetClassifier, TLAPS

(* ParseAssetTransaction, findTransactionParticipants and                  *)
(* findTransactionCurrency, grouped by createIdentityMap, file every       *)
(* transaction under exactly the buckets of the spec's classifier: the     *)
(* input-type test before the contract test, the decode failures demoted   *)
(* to ErrNotValidTransaction, and the native currency of send-many.        *)
THEOREM AssetParserMatchesSpec ==
    ASSUME NEW t \in Transactions
    PROVE  AssetTransactionBuckets(t) = SpecBuckets(t)
<1>. DEFINE kind == ParseAssetTransaction(t)
<1>1. CASE t.inputType = 0
  BY <1>1 DEF AssetTransactionBuckets, ParseAssetTransaction, SpecBuckets,
              FindTransactionParticipants, FindTransactionCurrency
<1>2. CASE t.dest = QUTIL /\ t.inputType = 1
  BY <1>2 DEF AssetTransactionBuckets, ParseAssetTransaction, SpecBuckets,
              FindTransactionParticipants, FindTransactionCurrency
<1>3. CASE t.dest = QX /\ t.inputType = 2
  BY <1>3 DEF AssetTransactionBuckets, ParseAssetTransaction, SpecBuckets,
              FindTransactionParticipants, FindTransactionCurrency
<1>4. CASE ~(t.inputType = 0) /\ ~(t.dest = QUTIL /\ t.inputType = 1)
           /\ ~(t.dest = QX /\ t.inputType = 2)
  BY <1>4 DEF AssetTransactionBuckets, ParseAssetTransaction, SpecBuckets
<1>. QED
  BY <1>1, <1>2, <1>3, <1>4

(* StoreQxAssetTransfers does not check the destination: for every        *)
(* identity a that is not the Qx contract and every asset name, a          *)
(* transaction of input type 2 from a to a with an 80-byte input is filed  *)
(* under (a, issuer ++ name), a bucket the spec's classifier does not give *)
(* it, so QxAssetIndexSound fails whenever there is an identity.            *)
THEOREM QxIndexAcceptsAnyDestination ==
    ASSUME QX \notin Identities,
           NEW a \in Identities, NEW n \in AssetNames
    PROVE  \E t \in Transactions :
              ~(QxAssetTransferBuckets(t) \subseteq SpecBuckets(t))
<1>. DEFINE w == [source |-> a, dest |-> a, inputType |-> 2,
                  size |-> "qxInput", owner |-> a, issuer |-> a,
                  assetName |-> n, smDests |-> {}]
<1>1. w \in Transactions
  BY DEF Transactions, Addresses, InputTypes, Sizes
<1>2. <<a, <<a, n>>>> \in QxAssetTransferBuckets(w)
  BY DEF QxAssetTransferBuckets, IsQxAssetTransfer, QxDecodes
<1>3. SpecBuckets(w) = {}
  BY DEF SpecBuckets, SendManyDecodes, QxDecodes
<1>. QED
  BY <1>1, <1>2, <1>3

=============================================================================
