------------------------------ MODULE DxProduct ------------------------------
(***************************************************************************)
(* DxProduct (dxproduct.cpp): the product table, the price ratios computed *)
(* from it, and the flow rates.                                            *)
(*                                                                         *)
(* table[d][i] is the (volume, price) pair of amount i of dispenser d.     *)
(* ratio[d][i] is _tk_p_ml[d][i], kept as the pair it was computed from:   *)
(* price/volume is the exact rational where the code keeps a float.        *)
(* rate[d] is the flow rate, in ml per TicksPerSecond ticks.               *)
(***************************************************************************)
EXTENDS DxMotors

CONSTANT TicksPerSecond      \* time units of the model per second
ASSUME TickAssumption == TicksPerSecond \in Nat \ {0}

Amounts   == 0 .. 2                                    \* NUM_AMOUNTS = 3
Pair      == [ml : Nat, tk : Nat]
Ratio     == [ml : Nat \ {0}, tk : Nat]
TableType == [DX -> [Amounts -> Pair]]
RateType  == [DX -> Nat \ {0}]
ProductType == [table : TableType, ratio : [DX -> [Amounts -> Ratio]], rate : RateType]

CeilDiv(a, b) == (a + b - 1) \div b

(* _getArrayIndex(): an index that is not a dispenser reads dispenser 1 *)
Row(dx) == IF dx \in DX THEN dx ELSE 1

(* _getSelectedX() for both values, the amount index constrained *)
AmountOf(prod, dx, i) == prod.table[Row(dx)][IF i \in Amounts THEN i ELSE 2]

(* _calcPriceRatios(): an entry whose volume is 0 keeps its old ratio *)
CalcPriceRatios(table, old) ==
  [d \in DX |-> [i \in Amounts |-> IF table[d][i].ml # 0 THEN table[d][i] ELSE old[d][i]]]

(* cfgIOTable(DX_CFG_READ): only loading the table recomputes the ratios *)
LoadTable(prod) == [prod EXCEPT !.ratio = CalcPriceRatios(prod.table, prod.ratio)]

(* setTableXY() of every amount, then cfgIOsaveTable(): the ratios stay *)
SetTable(prod, dx, amounts) == [prod EXCEPT !.table[Row(dx)] = amounts]

(* setFlowRate() *)
SetFlowRate(prod, rates) == [prod EXCEPT !.rate = rates]

(* getFlowRate() *)
FlowRate(prod, dx) == prod.rate[Row(dx)]

(* (uint16_t) ceil(time * flow rate) *)
VolumeOf(time, rate) == CeilDiv(time * rate, TicksPerSecond)

(* getPriceOfVolumeDx(): the bracket the volume falls in decides the ratio; *)
(* a table volume has its table price; past the last one, the last ratio.   *)
Bracket(prod, dx, ml) ==
  IF \E i \in Amounts : ml <= prod.table[Row(dx)][i].ml
  THEN CHOOSE i \in Amounts :
         /\ ml <= prod.table[Row(dx)][i].ml
         /\ \A j \in Amounts : j < i => ml > prod.table[Row(dx)][j].ml
  ELSE 2

PriceOfVolume(prod, dx, ml) ==
  LET i     == Bracket(prod, dx, ml)
      entry == prod.table[Row(dx)][i]
      r     == prod.ratio[Row(dx)][i]
  IN  IF ml = entry.ml THEN entry.tk ELSE CeilDiv(r.tk * ml, r.ml)
=============================================================================
