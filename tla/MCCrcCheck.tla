----------------------------- MODULE MCCrcCheck -----------------------------
(***************************************************************************)
(* Instances of the SPI data path for TLC: the widths and OP_LENs in use   *)
(* (spi_top.sv, tb_serializer.sv, tb_deserializer.sv) in both bit orders.  *)
(* The bytes are the first vector of tb_crc.sv and its two check values.   *)
(***************************************************************************)
EXTENDS CrcCheck

MCShapes ==
    [width : {8}, opLen : {0, 3}, dir : {0, 1}] \cup [width : {16}, opLen : {0}, dir : {0, 1}]

Number(n, width) == [i \in 0 .. width - 1 |-> (n \div 2 ^ i) % 2]

\* 8'hAA and its check value in the bit order of the instance; 16'hC3A5.
MCWords(s) ==
    IF s.width = 16 THEN {Number(50085, 16)}
    ELSE {Number(170, 8), Number(IF s.dir = 0 THEN 95 ELSE 53, 8)}

MCPoly == {0, 1, 2}

\* The ones of a number, as polynomial.
Ones(n) == {i \in 0 .. 7 : (n \div 2 ^ i) % 2 = 1}

\* The multiples of x^8 + 8'h1D, the polynomial of test 6 of tb_crc.sv.
Multiples1D == {Product(q, {8} \cup Ones(29)) : q \in SUBSET CrcBits}

\* The check values by division: of 8'hAA and 8'hFF 8'h5F and 8'hF3, and of
\* 8'hAA with 8'h1D 8'h73.  tb_crc.sv:86 expects the first; :190, :145 and :212
\* expect 8'hE7, 8'hFE and 8'h7C for the three.
ASSUME CheckValues ==
    /\ Remainder(Ones(170)) = Ones(95)
    /\ Remainder(Ones(255)) = Ones(243)
    /\ Sum(Up(8, Ones(170)), Ones(115)) \in Multiples1D

\* The parameters of the instance meet the hypotheses of the theorem.
ASSUME MCAssumption == DetectsFlips /\ RestartFits
=============================================================================
