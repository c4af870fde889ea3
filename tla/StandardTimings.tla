-------------------------- MODULE StandardTimings --------------------------
(***************************************************************************)
(* The timing constraints of the DRAM standards of labs/lab3 (init_timing  *)
(* of src/DDR3.cpp, ..., src/DSARP.cpp), for the speed and the chip that   *)
(* configs/ names for each: the row of speed_table that has it, with what  *)
(* init_speed computes from the chip.  Cycles; frequencies are left out.   *)
(*                                                                         *)
(* A constraint says that, of a node on level, command to comes val cycles *)
(* or more after the dist-th last command from; with sibling set, from is  *)
(* a command for another child of the node's parent.  Names of commands    *)
(* are those of Standards.tla.                                             *)
(***************************************************************************)
EXTENDS Integers

Read == {"RD", "RDA"}
Write == {"WR", "WRA"}

Constraints(level, from, to, dist, val, sibling) ==
  {[level |-> level, from |-> f, to |-> t, dist |-> dist, val |-> val, sibling |-> sibling] :
     f \in from, t \in to}
Rows(level, from, to, val) == Constraints(level, from, to, 1, val, FALSE)
Siblings(level, from, to, val) == Constraints(level, from, to, 1, val, TRUE)
-----------------------------------------------------------------------------
\* The parts that the tables share, by the comments of init_timing.  s is the
\* speed_entry; what differs is an argument.

\* from a write command to the end of the write recovery
Recovery(s) == s.nCWL + s.nBL + s.nWR

\* Channel, CAS <-> CAS
Bus(s) == Rows("Channel", Read, Read, s.nBL) \cup Rows("Channel", Write, Write, s.nBL)

ColumnsNoTurnaround(level, ccd, rtw, wtr) ==   \* mutant: no time between read and write
  Rows(level, Read \cup Write, Read \cup Write, ccd)

\* CAS <-> CAS: between reads or writes, from read to write, from write to read
Columns(level, ccd, rtw, wtr) ==
  Rows(level, Read, Read, ccd) \cup Rows(level, Write, Write, ccd)
  \cup Rows(level, Read, Write, rtw) \cup Rows(level, Write, Read, wtr)

\* CAS <-> CAS (between sibling ranks): extra cycles from read to write
OtherRanks(s, extra) ==
  Siblings("Rank", Read, Read \cup Write, s.nBL + s.nRTRS)
  \cup Siblings("Rank", Read, Write, s.nCL + s.nBL + extra + s.nRTRS - s.nCWL)
  \cup Siblings("Rank", Write, Read, s.nCWL + s.nBL + s.nRTRS - s.nCL)

\* CAS <-> PREA
ToPrechargeAll(rtp, wr) == Rows("Rank", {"RD"}, {"PREA"}, rtp) \cup Rows("Rank", {"WR"}, {"PREA"}, wr)

\* CAS, RAS, REF <-> PD: the data of a read is over after rd, of a write after wr
BeforePowerDown(rd, wr) ==
  Rows("Rank", Read, {"PDE"}, rd) \cup Rows("Rank", {"WR"}, {"PDE"}, wr)
  \cup Rows("Rank", {"WRA"}, {"PDE"}, wr + 1)

Waking == {"RD", "RDA", "WR", "WRA", "ACT", "PRE", "PREA", "REF", "PDE", "SRE"}

\* SR, PD <-> all others.  perBank: {"REFPB"} where there is such a command.
PowerTimes(xp, pd, perBank) ==
  Rows("Rank", {"PDX"}, Waking \cup perBank, xp) \cup Rows("Rank", {"PDE"}, {"PDX"}, pd)
  \cup Rows("Rank", {"ACT", "REF"} \cup perBank, {"PDE"}, 1)
SelfRefreshTimes(xs, ckesr, perBank) ==
  Rows("Rank", {"SRX"}, {"ACT", "REF", "PDE", "SRE"} \cup perBank, xs)
  \cup Rows("Rank", {"SRE"}, {"SRX"}, ckesr)

\* RAS <-> RAS of a rank: windows are <<n, cycles>>, at most n activations in each
Activations(rrd, windows, ras) ==
  Rows("Rank", {"ACT"}, {"ACT"}, rrd)
  \cup (UNION {Constraints("Rank", {"ACT"}, {"ACT"}, w[1], w[2], FALSE) : w \in windows})
  \cup Rows("Rank", {"ACT"}, {"PREA"}, ras)

RefreshesAtOnce(rpab, rppb, rfc) ==   \* mutant: a refresh does not wait for precharges
  Rows("Rank", {"REF"}, {"REF", "ACT"}, rfc)

\* RAS, SR, REF <-> REF of a rank, after all banks (ab) or one (pb) are precharged
Refreshes(rpab, rppb, rfc) ==
  Rows("Rank", {"PREA"}, {"ACT", "REF", "SRE"}, rpab) \cup Rows("Rank", {"PRE"}, {"REF", "SRE"}, rppb)
  \cup Rows("Rank", {"REF"}, {"REF", "ACT"}, rfc)

\* CAS, RAS <-> RAS of a bank or subarray
BankTimes(level, rcdr, rcdw, rtp, wr, rc, ras, rp) ==
  Rows(level, {"ACT"}, Read, rcdr) \cup Rows(level, {"ACT"}, Write, rcdw)
  \cup Rows(level, {"RD"}, {"PRE"}, rtp) \cup Rows(level, {"WR"}, {"PRE"}, wr)
  \cup Rows(level, {"RDA"}, {"ACT"}, rtp + rp) \cup Rows(level, {"WRA"}, {"ACT"}, wr + rp)
  \cup Rows(level, {"ACT"}, {"ACT"}, rc) \cup Rows(level, {"ACT"}, {"PRE"}, ras)
  \cup Rows(level, {"PRE"}, {"ACT"}, rp)

\* REFpb: within the bank, with the other banks and with REF
BankRefreshes(rrd, rppb, rfcab, rfcpb) ==
  Rows("Bank", {"PRE"}, {"REFPB"}, rppb) \cup Rows("Bank", {"REFPB"}, {"ACT", "REFPB"}, rfcpb)
  \cup Siblings("Bank", {"ACT"}, {"REFPB"}, rrd) \cup Siblings("Bank", {"REFPB"}, {"ACT"}, rrd)
  \cup Rows("Rank", {"REF"}, {"REFPB"}, rfcab) \cup Rows("Rank", {"REFPB"}, {"REF"}, rfcpb)
-----------------------------------------------------------------------------
DDR3_table == [nBL |-> 4, nCCD |-> 4, nRTRS |-> 2, nCL |-> 11, nRCD |-> 11, nRP |-> 11, nCWL |-> 8,
  nRAS |-> 28, nRC |-> 39, nRTP |-> 6, nWTR |-> 6, nWR |-> 12, nRRD |-> 0, nFAW |-> 0, nRFC |-> 0,
  nPD |-> 4, nXP |-> 5, nCKESR |-> 5, nXS |-> 0]
DDR3_speed == [DDR3_table EXCEPT !.nRRD = 5, !.nFAW = 24, !.nRFC = 128, !.nXS = 136]

\* The constraints above the bank: also those of PCM, STTMRAM, ALDRAM and SALP
DDR3_rank(s, rrd) ==
  Bus(s) \cup Columns("Rank", s.nCCD, s.nCL + s.nCCD + 2 - s.nCWL, s.nCWL + s.nBL + s.nWTR)
  \cup OtherRanks(s, 0) \cup ToPrechargeAll(s.nRTP, Recovery(s))
  \cup BeforePowerDown(s.nCL + s.nBL + 1, Recovery(s)) \cup PowerTimes(s.nXP, s.nPD, {})
  \cup SelfRefreshTimes(s.nXS, s.nCKESR, {})
  \cup Activations(rrd, {<<4, s.nFAW>>}, s.nRAS) \cup Refreshes(s.nRP, s.nRP, s.nRFC)

DDR3_timing(s) ==
  DDR3_rank(s, s.nRRD) \cup BankTimes("Bank", s.nRCD, s.nRCD, s.nRTP, Recovery(s), s.nRC, s.nRAS, s.nRP)

DDR4_table == [nBL |-> 4, nCCDS |-> 4, nCCDL |-> 6, nRTRS |-> 2, nCL |-> 16, nRCD |-> 16,
  nRP |-> 16, nCWL |-> 12, nRAS |-> 39, nRC |-> 55, nRTP |-> 9, nWTRS |-> 3, nWTRL |-> 9,
  nWR |-> 18, nRRDS |-> 0, nRRDL |-> 0, nFAW |-> 0, nRFC |-> 0, nPD |-> 6, nXP |-> 8, nCKESR |-> 7,
  nXS |-> 0]
DDR4_speed == [DDR4_table EXCEPT !.nRRDS = 4, !.nRRDL = 6, !.nFAW = 26, !.nRFC = 312, !.nXS = 324]

DDR4_timing(s) ==
  Bus(s) \cup Columns("Rank", s.nCCDS, s.nCL + s.nBL + 2 - s.nCWL, s.nCWL + s.nBL + s.nWTRS)
  \cup OtherRanks(s, 0) \cup ToPrechargeAll(s.nRTP, Recovery(s))
  \cup BeforePowerDown(s.nCL + s.nBL + 1, Recovery(s)) \cup PowerTimes(s.nXP, s.nPD, {})
  \cup SelfRefreshTimes(s.nXS, s.nCKESR, {})
  \cup Activations(s.nRRDS, {<<4, s.nFAW>>}, s.nRAS) \cup Refreshes(s.nRP, s.nRP, s.nRFC)
  \cup Rows("Rank", {"ACT"}, {"REF"}, s.nRC) \cup Rows("Rank", {"RDA"}, {"REF"}, s.nRTP + s.nRP)
  \cup Rows("Rank", {"WRA"}, {"REF"}, Recovery(s) + s.nRP)
  \cup Rows("BankGroup", Read, Read, s.nCCDL) \cup Rows("BankGroup", Write, Write, s.nCCDL)
  \cup Rows("BankGroup", Write, Read, s.nCWL + s.nBL + s.nWTRL) \cup Rows("BankGroup", {"ACT"}, {"ACT"}, s.nRRDL)
  \cup BankTimes("Bank", s.nRCD, s.nRCD, s.nRTP, Recovery(s), s.nRC, s.nRAS, s.nRP)

LPDDR3_table == [nBL |-> 4, nCCD |-> 4, nRTRS |-> 2, nDQSCK |-> 2, nCL |-> 12, nRCD |-> 15,
  nRPpb |-> 15, nRPab |-> 17, nCWL |-> 6, nRAS |-> 34, nRC |-> 48, nRTP |-> 6, nWTR |-> 6,
  nWR |-> 12, nRRD |-> 8, nFAW |-> 40, nRFCab |-> 0, nRFCpb |-> 0, nCKE |-> 6, nXP |-> 6,
  nCKESR |-> 12, nXSR |-> 0]
LPDDR3_speed == [LPDDR3_table EXCEPT !.nRFCpb = 72, !.nRFCab = 168, !.nXSR = 176]

\* a write's data begins a cycle late
LPDDR3_timing(s) ==
  Bus(s)
  \cup Columns("Rank", s.nCCD, s.nCL + s.nBL + s.nDQSCK + 1 - s.nCWL, s.nCWL + s.nBL + s.nWTR + 1)
  \cup OtherRanks(s, s.nDQSCK + 1) \cup ToPrechargeAll(s.nRTP, Recovery(s))
  \cup BeforePowerDown(s.nCL + s.nBL + 1, Recovery(s)) \cup PowerTimes(s.nXP, s.nCKE, {"REFPB"})
  \cup SelfRefreshTimes(s.nXSR, s.nCKESR, {"REFPB"})
  \cup Activations(s.nRRD, {<<4, s.nFAW>>}, s.nRAS) \cup Refreshes(s.nRPab, s.nRPpb, s.nRFCab)
  \cup BankTimes("Bank", s.nRCD, s.nRCD, s.nRTP, Recovery(s), s.nRC, s.nRAS, s.nRPpb)
  \cup BankRefreshes(s.nRRD, s.nRPpb, s.nRFCab, s.nRFCpb)

LPDDR4_table == [nBL |-> 8, nCCD |-> 8, nRTRS |-> 2, nDQSCK |-> 2, nCL |-> 25, nRCD |-> 22,
  nRPpb |-> 20, nRPab |-> 24, nCWL |-> 14, nRAS |-> 51, nRC |-> 71, nRTP |-> 11, nWTR |-> 12,
  nWR |-> 21, nPPD |-> 4, nRRD |-> 12, nFAW |-> 48, nRFCab |-> 0, nRFCpb |-> 0, nCKE |-> 0,
  nXP |-> 9, nSR |-> 18, nXSR |-> 0]
LPDDR4_speed == [LPDDR4_table EXCEPT !.nRFCpb = 108, !.nRFCab = 216, !.nXSR = 225]

LPDDR4_timing(s) ==
  Bus(s)
  \cup Columns("Rank", s.nCCD, s.nCL + s.nBL + s.nDQSCK + 1 - s.nCWL, s.nCWL + s.nBL + s.nWTR + 1)
  \cup OtherRanks(s, s.nDQSCK + 1) \cup ToPrechargeAll(s.nRTP, Recovery(s))
  \cup BeforePowerDown(s.nCL + s.nBL + 1, Recovery(s)) \cup PowerTimes(s.nXP, s.nCKE, {"REFPB"})
  \cup SelfRefreshTimes(s.nXSR, s.nSR, {"REFPB"})
  \cup Activations(s.nRRD, {<<4, s.nFAW>>}, s.nRAS) \cup Refreshes(s.nRPab, s.nRPpb, s.nRFCab)
  \cup Rows("Rank", {"PRE"}, {"PRE"}, s.nPPD)
  \cup BankTimes("Bank", s.nRCD, s.nRCD, s.nRTP, Recovery(s), s.nRC, s.nRAS, s.nRPpb)
  \cup BankRefreshes(s.nRRD, s.nRPpb, s.nRFCab, s.nRFCpb)

GDDR5_table == [nBL |-> 2, nCCDS |-> 2, nCCDL |-> 3, nCL |-> 18, nRCDR |-> 18, nRCDW |-> 15,
  nRP |-> 18, nCWL |-> 5, nRAS |-> 42, nRC |-> 60, nPPD |-> 2, nRTP |-> 2, nWTR |-> 8, nWR |-> 18,
  nRRD |-> 9, nFAW |-> 35, n32AW |-> 276, nRFC |-> 0, nPD |-> 10, nXPN |-> 10, nCKESR |-> 0,
  nXS |-> 0]
GDDR5_speed == [GDDR5_table EXCEPT !.nRFC = 525]

\* one rank; at most 32 activations in n32AW cycles
GDDR5_timing(s) ==
  Bus(s) \cup Columns("Rank", s.nCCDS, s.nCL + s.nCCDS + 2 - s.nCWL, s.nCWL + s.nBL + s.nWTR)
  \cup ToPrechargeAll(s.nRTP, Recovery(s))
  \cup BeforePowerDown(s.nCL + s.nBL + 1, Recovery(s)) \cup PowerTimes(s.nXPN, s.nPD, {})
  \cup SelfRefreshTimes(s.nXS, s.nCKESR, {})
  \cup Activations(s.nRRD, {<<4, s.nFAW>>, <<32, s.n32AW>>}, s.nRAS) \cup Refreshes(s.nRP, s.nRP, s.nRFC)
  \cup Rows("Rank", {"PRE"}, {"PRE"}, s.nPPD)
  \cup Rows("BankGroup", Read, Read, s.nCCDL) \cup Rows("BankGroup", Write, Write, s.nCCDL)
  \cup BankTimes("Bank", s.nRCDR, s.nRCDW, s.nRTP, Recovery(s), s.nRC, s.nRAS, s.nRP)

HBM_table == [nBL |-> 2, nCCDS |-> 2, nCCDL |-> 3, nCL |-> 7, nRCDR |-> 7, nRCDW |-> 6, nRP |-> 7,
  nCWL |-> 4, nRAS |-> 17, nRC |-> 24, nRTP |-> 7, nWTRS |-> 2, nWTRL |-> 4, nWR |-> 8, nRRDS |-> 4,
  nRRDL |-> 5, nFAW |-> 20, nRFC |-> 0, nPD |-> 5, nXP |-> 5, nCKESR |-> 5, nXS |-> 0]
HBM_speed == [HBM_table EXCEPT !.nRFC = 130, !.nXS = 135]

HBM_timing(s) ==
  Bus(s) \cup Columns("Rank", s.nCCDS, s.nCL + s.nCCDS + 2 - s.nCWL, s.nCWL + s.nBL + s.nWTRS)
  \cup ToPrechargeAll(s.nRTP, Recovery(s))
  \cup BeforePowerDown(s.nCL + s.nBL + 1, Recovery(s)) \cup PowerTimes(s.nXP, s.nPD, {})
  \cup SelfRefreshTimes(s.nXS, s.nCKESR, {})
  \cup Activations(s.nRRDS, {<<4, s.nFAW>>}, s.nRAS) \cup Refreshes(s.nRP, s.nRP, s.nRFC)
  \cup Rows("BankGroup", Read, Read, s.nCCDL) \cup Rows("BankGroup", Write, Write, s.nCCDL)
  \cup Rows("BankGroup", Write, Read, s.nCWL + s.nBL + s.nWTRL) \cup Rows("BankGroup", {"ACT"}, {"ACT"}, s.nRRDL)
  \cup BankTimes("Bank", s.nRCDR, s.nRCDW, s.nRTP, Recovery(s), s.nRC, s.nRAS, s.nRP)
  \cup Rows("Bank", {"PRE"}, {"REFPB"}, s.nRP) \cup Rows("Bank", {"REFPB"}, {"REFPB", "ACT"}, s.nRFC)

WideIO_table == [nBL |-> 4, nCCD |-> 4, nDQSCK |-> 1, nCL |-> 3, nRCD |-> 5, nRP |-> 5, nCWL |-> 1,
  nRAS |-> 12, nRC |-> 16, nRTP |-> 4, nRTW |-> 8, nWTR |-> 4, nWR |-> 4, nRRD |-> 3, nTAW |-> 14,
  nRFC |-> 0, nCKE |-> 3, nXP |-> 3, nCKESR |-> 4, nXSR |-> 0]
WideIO_speed == [WideIO_table EXCEPT !.nRFC = 56]

\* one rank; at most two activations in nTAW cycles
WideIO_timing(s) ==
  Bus(s) \cup Columns("Rank", s.nCCD, s.nRTW, s.nCWL + s.nBL + s.nWTR)
  \cup ToPrechargeAll(s.nRTP, Recovery(s))
  \cup BeforePowerDown(s.nCL + s.nBL + 1, Recovery(s)) \cup PowerTimes(s.nXP, s.nCKE, {})
  \cup SelfRefreshTimes(s.nXSR, s.nCKESR, {})
  \cup Activations(s.nRRD, {<<2, s.nTAW>>}, s.nRAS) \cup Refreshes(s.nRP, s.nRP, s.nRFC)
  \cup BankTimes("Bank", s.nRCD, s.nRCD, s.nRTP, Recovery(s), s.nRC, s.nRAS, s.nRP)

WideIO2_table == [nBL |-> 2, nCCD |-> 2, nDQSCK |-> 1, nRTRS |-> 2, nCL |-> 9, nRCD |-> 10,
  nRPpb |-> 10, nRPab |-> 12, nCWL |-> 7, nRAS |-> 23, nRC |-> 33, nRTP |-> 4, nWTR |-> 6,
  nWR |-> 11, nRRD |-> 6, nFAW |-> 32, nRFCab |-> 96, nRFCpb |-> 48, nCKE |-> 3, nXP |-> 4,
  nCKESR |-> 8, nXSR |-> 102]

\* a write is over a cycle late, a read nDQSCK cycles late
WideIO2_timing(s) ==
  LET wr == Recovery(s) + 1
  IN Bus(s)
     \cup Columns("Rank", s.nCCD, s.nCL + s.nDQSCK + s.nBL + 1 - s.nCWL, s.nCWL + 1 + s.nBL + s.nWTR)
     \cup OtherRanks(s, s.nDQSCK + 1) \cup ToPrechargeAll(s.nRTP, wr)
     \cup BeforePowerDown(s.nCL + s.nDQSCK + s.nBL + 1, wr) \cup PowerTimes(s.nXP, s.nCKE, {"REFPB"})
     \cup SelfRefreshTimes(s.nXSR, s.nCKESR, {"REFPB"})
     \cup Activations(s.nRRD, {<<4, s.nFAW>>}, s.nRAS) \cup Refreshes(s.nRPab, s.nRPpb, s.nRFCab)
     \cup BankTimes("Bank", s.nRCD, s.nRCD, s.nRTP, wr, s.nRC, s.nRAS, s.nRPpb)
     \cup BankRefreshes(s.nRRD, s.nRPpb, s.nRFCab, s.nRFCpb)

PCM_table == [nBL |-> 4, nCCD |-> 4, nRTRS |-> 2, nCL |-> 5, nRCD |-> 22, nRP |-> 60, nCWL |-> 5,
  nRAS |-> 22, nRC |-> 60, nRTP |-> 3, nWTR |-> 3, nWR |-> 6, nRRDact |-> 2, nRRDpre |-> 11,
  nFAW |-> 0, nRFC |-> 0, nPD |-> 0, nXP |-> 3, nCKESR |-> 4, nXS |-> 0]
PCM_speed == [PCM_table EXCEPT !.nFAW = 16, !.nRFC = 0, !.nXS = 68]

\* nRRDact also separates two precharges
PCM_timing(s) ==
  DDR3_rank(s, s.nRRDact) \cup Rows("Rank", {"PRE"}, {"PRE"}, s.nRRDact)
  \cup BankTimes("Bank", s.nRCD, s.nRCD, s.nRTP, Recovery(s), s.nRC, s.nRAS, s.nRP)

STTMRAM_table == [nBL |-> 4, nCCD |-> 4, nRTRS |-> 2, nCL |-> 11, nRCD |-> 14, nRP |-> 14,
  nCWL |-> 8, nRAS |-> 20, nRC |-> 34, nRTP |-> 6, nWTR |-> 6, nWR |-> 12, nRRD |-> 12, nFAW |-> 12,
  nRFC |-> 0, nPD |-> 4, nXP |-> 5, nCKESR |-> 5, nXS |-> 0]
STTMRAM_speed == [STTMRAM_table EXCEPT !.nRRD = 6, !.nFAW = 29, !.nRFC = 1, !.nXS = 0]

STTMRAM_timing(s) == DDR3_timing(s)

ALDRAM_table == [nBL |-> 4, nCCD |-> 4, nRTRS |-> 2, nCL |-> 11, nRCD |-> 11, nRP |-> 11,
  nCWL |-> 8, nRAS |-> 28, nRC |-> 39, nRTP |-> 6, nWTR |-> 6, nWR |-> 12, nRRD |-> 0, nFAW |-> 0,
  nRFC |-> 0, nPD |-> 4, nXP |-> 5, nCKESR |-> 5, nXS |-> 0]

\* init_timing gets the row of speed_table for hot memory and not speed_entry, in
\* which init_speed has set nRRD, nFAW, nRFC and nXS
ALDRAM_timing(s) == DDR3_timing(s)

SALP_table == [nBL |-> 4, nCCD |-> 4, nRTRS |-> 2, nCL |-> 11, nRCD |-> 11, nRP |-> 11, nPA |-> 1,
  nCWL |-> 8, nRAS |-> 28, nRC |-> 39, nRTP |-> 6, nWTR |-> 6, nWR |-> 12, nRA |-> 6, nWA |-> 18,
  nRRD |-> 0, nFAW |-> 0, nRFC |-> 0, nPD |-> 4, nXP |-> 5, nCKESR |-> 5, nXS |-> 0, nSCD |-> 1]
SALP_speed == [SALP_table EXCEPT !.nRRD = 5, !.nFAW = 24, !.nRFC = 208, !.nXS = 216]

SALP_timing(s) ==
  DDR3_rank(s, s.nRRD) \cup Rows("Rank", {"PRE_OTHER"}, {"REF", "SRE"}, s.nRP)
  \cup BankTimes("SubArray", s.nRCD, s.nRCD, s.nRTP, Recovery(s), s.nRC, s.nRAS, s.nRP)

\* between the subarrays of a bank, by type
SALP_siblings(type, s) ==
  CASE type = "SALP_1" ->
         Rows("Bank", {"ACT"}, {"PRE", "PRE_OTHER"}, s.nRAS)
         \cup Rows("Bank", {"RD"}, {"PRE", "PRE_OTHER"}, s.nRTP)
         \cup Rows("Bank", {"WR"}, {"PRE", "PRE_OTHER"}, Recovery(s))
         \cup Siblings("SubArray", {"PRE", "PRE_OTHER"}, {"ACT"}, s.nPA)
         \cup Siblings("SubArray", {"ACT"}, {"ACT"}, s.nRC - s.nRP + s.nPA)
         \cup Siblings("SubArray", {"RDA"}, {"ACT"}, s.nRTP + s.nPA)
         \cup Siblings("SubArray", {"WRA"}, {"ACT"}, Recovery(s) + s.nPA)
    [] type = "SALP_2" ->
         Siblings("SubArray", {"ACT"}, {"ACT"}, s.nRCD + s.nRA)
         \cup Siblings("SubArray", Read, {"ACT"}, s.nRA) \cup Siblings("SubArray", Write, {"ACT"}, s.nWA)
    [] type = "MASA" ->
         Rows("SubArray", {"SASEL"}, Read \cup Write, s.nSCD)
         \cup (UNION {Siblings("SubArray", {c}, {c, "SASEL", "ACT"}, s.nRA) : c \in Read})
         \cup (UNION {Siblings("SubArray", {c}, {c, "SASEL", "ACT"}, s.nWA) : c \in Write})

TLDRAM_table == [nBL |-> 4, nCCD |-> 4, nRTRS |-> 2, nCL |-> 11, nRCD |-> 11, nRP |-> 11,
  nCWL |-> 8, nRAS |-> 28, nRC |-> 39, nRTP |-> 6, nWTR |-> 6, nWR |-> 12, nRRD |-> 0, nFAW |-> 0,
  nRFC |-> 0, nPD |-> 4, nXP |-> 5, nCKESR |-> 5, nXS |-> 0, nRCDF |-> 3, nRPF |-> 3, nRASF |-> 10,
  nRCF |-> 13, nRCDM |-> 6, nRPM |-> 6, nRASM |-> 20, nRCM |-> 26]
TLDRAM_speed == [TLDRAM_table EXCEPT !.nRRD = 5, !.nFAW = 24, !.nRFC = 208, !.nXS = 216]

\* MIG is timed like a read.  Slow, fast and migrated rows have times of their own.
TLDRAM_segments(s) == {
  [act |-> "ACT", pre |-> "PRE", prea |-> "PREA", rcd |-> s.nRCD, rp |-> s.nRP, ras |-> s.nRAS, rc |-> s.nRC],
  [act |-> "ACTF", pre |-> "PREF", prea |-> "PREAF", rcd |-> s.nRCDF, rp |-> s.nRPF, ras |-> s.nRASF, rc |-> s.nRCF],
  [act |-> "ACTM", pre |-> "PREM", prea |-> "PREAM", rcd |-> s.nRCDM, rp |-> s.nRPM, ras |-> s.nRASM, rc |-> s.nRCM]}
Reads == {"RD", "MIG"}
Acts == {"ACT", "ACTF", "ACTM"}
Pres == {"PRE", "PREF", "PREM"}
PreAlls == {"PREA", "PREAF", "PREAM"}

TLDRAM_rank(s) ==
  Rows("Channel", Reads, Reads, s.nBL) \cup Rows("Channel", {"WR"}, {"WR"}, s.nBL)
  \cup Rows("Rank", Reads, Reads, s.nCCD) \cup Rows("Rank", {"WR"}, {"WR"}, s.nCCD)
  \cup Rows("Rank", Reads, {"WR"}, s.nCL + s.nCCD + 2 - s.nCWL)
  \cup Rows("Rank", {"WR"}, Reads, s.nCWL + s.nBL + s.nWTR)
  \cup Siblings("Rank", Reads, Reads \cup {"WR"}, s.nBL + s.nRTRS)
  \cup Siblings("Rank", Reads, {"WR"}, s.nCL + s.nBL + s.nRTRS - s.nCWL)
  \cup Siblings("Rank", {"WR"}, Reads, s.nCWL + s.nBL + s.nRTRS - s.nCL)
  \cup Rows("Rank", Reads, PreAlls, s.nRTP) \cup Rows("Rank", Reads, {"PDE"}, s.nCL + s.nBL + 1)
  \cup Rows("Rank", {"WR"}, PreAlls \cup {"PDE"}, Recovery(s))
  \cup Rows("Rank", {"PDX"}, Reads \cup Acts \cup Pres \cup {"WR", "REF", "PDE", "SRE"}, s.nXP)
  \cup Rows("Rank", Acts, Acts, s.nRRD) \cup Constraints("Rank", Acts, Acts, 4, s.nFAW, FALSE)
  \cup (UNION {Rows("Rank", {g.act}, Pres \cup PreAlls, g.ras)
               \cup Rows("Rank", {g.pre}, Acts \cup {"REF", "SRE"}, g.rp)
               \cup Rows("Rank", {g.prea}, {"REF", "SRE"}, g.rp) : g \in TLDRAM_segments(s)})
  \cup Rows("Rank", {"REF"}, Acts \cup {"REF"}, s.nRFC) \cup Rows("Rank", Acts \cup {"REF"}, {"PDE"}, 1)
  \cup Rows("Rank", {"SRX"}, Acts \cup {"REF", "PDE", "SRE"}, s.nXS)
  \cup Rows("Rank", {"PDE"}, {"PDX"}, s.nPD) \cup Rows("Rank", {"SRE"}, {"SRX"}, s.nCKESR)

TLDRAM_bankSlow(s) ==   \* mutant: a migration waits as if its row were slow
  Rows("Bank", Acts, {"MIG"}, s.nRCD) \cup Rows("Bank", Acts, {"RD", "WR"}, s.nRCDF)

TLDRAM_bank(s) ==
  Rows("Bank", Reads, Pres, s.nRTP) \cup Rows("Bank", {"WR"}, {"PRE", "PREF"}, Recovery(s))
  \cup (UNION {Rows("Bank", {g.act}, Reads \cup {"WR"}, g.rcd) \cup Rows("Bank", {g.act}, Acts, g.rc)
               \cup Rows("Bank", {g.act}, Pres, g.ras) \cup Rows("Bank", {g.pre}, Acts, g.rp) : g \in TLDRAM_segments(s)})

DSARP_table == [nBL |-> 4, nCCD |-> 4, nRTRS |-> 2, nCL |-> 9, nRCD |-> 9, nRPpb |-> 8, nRPab |-> 9,
  nCWL |-> 7, nRAS |-> 24, nRC |-> 33, nRTP |-> 5, nWTR |-> 5, nWR |-> 10, nRRD |-> 5, nFAW |-> 30,
  nRFCab |-> 0, nRFCpb |-> 0, nPD |-> 4, nXP |-> 4, nCKESR |-> 5, nXS |-> 114]
DSARP_speed == [DSARP_table EXCEPT !.nRFCpb = 109, !.nRFCab = 234]

DSARP_timing(s) ==
  Bus(s) \cup Columns("Rank", s.nCCD, s.nCL + s.nCCD + 2 - s.nCWL, s.nCWL + s.nBL + s.nWTR)
  \cup OtherRanks(s, 0) \cup ToPrechargeAll(s.nRTP, Recovery(s))
  \cup BeforePowerDown(s.nCL + s.nBL + 1, Recovery(s)) \cup PowerTimes(s.nXP, s.nPD, {"REFPB"})
  \cup SelfRefreshTimes(s.nXS, s.nCKESR, {"REFPB"})
  \cup Activations(s.nRRD, {<<4, s.nFAW>>}, s.nRAS) \cup Refreshes(s.nRPab, s.nRPpb, s.nRFCab)
  \cup Rows("Rank", {"REF"}, {"REFPB"}, s.nRFCab) \cup Rows("Rank", {"REFPB"}, {"REF", "REFPB"}, s.nRFCpb)
  \cup BankTimes("Bank", s.nRCD, s.nRCD, s.nRTP, Recovery(s), s.nRC, s.nRAS, s.nRPpb)
  \cup Rows("Bank", {"PRE"}, {"REFPB"}, s.nRPpb) \cup Rows("Bank", {"REFPB"}, {"REFPB"}, s.nRFCpb)
  \cup Siblings("Bank", {"REFPB"}, {"REFPB"}, s.nRFCpb)
  \cup Siblings("Bank", {"ACT"}, {"REFPB"}, s.nRRD) \cup Siblings("Bank", {"REFPB"}, {"ACT"}, s.nRRD)

\* ceil(nRRD * nRRD_factor), the factor is 1.138
SarpActivation(s) == (s.nRRD * 1138 + 999) \div 1000

\* with SARP, the type DSARP, the other subarrays of a bank that is refreshed can be
\* accessed; without it, REFAB and REFPB, the bank cannot
DSARP_refresh(type, s) ==
  IF type = "REFAB"
    THEN Rows("Bank", {"REFPB"}, Read \cup Write \cup {"ACT", "PRE", "PREA"}, s.nRFCpb)
  ELSE Siblings("SubArray", {"ACT"}, {"REFPB"}, SarpActivation(s))
       \cup Siblings("SubArray", {"REFPB"}, {"ACT"}, SarpActivation(s))
       \cup Rows("SubArray", {"REF"}, {"ACT"}, s.nRFCab) \cup Rows("SubArray", {"REFPB"}, {"ACT"}, s.nRFCpb)
       \cup BankTimes("SubArray", s.nRCD, s.nRCD, s.nRTP, Recovery(s), s.nRC, s.nRAS, s.nRPpb)
       \cup Rows("SubArray", {"PRE"}, {"REFPB", "REF"}, s.nRPpb)
       \cup Siblings("SubArray", {"ACT"}, {"ACT"}, s.nRC) \cup Siblings("SubArray", {"PRE"}, {"ACT"}, s.nRPpb)
       \cup Siblings("SubArray", {"RDA"}, {"ACT"}, s.nRTP + s.nRPpb)
       \cup Siblings("SubArray", {"WRA"}, {"ACT"}, Recovery(s) + s.nRPpb)
-----------------------------------------------------------------------------
\* the speed_entry that init_timing gets, and the timing constraints of a standard
speed(std) ==
  CASE std = "DDR3" -> DDR3_speed [] std = "DDR4" -> DDR4_speed [] std = "LPDDR3" -> LPDDR3_speed
    [] std = "LPDDR4" -> LPDDR4_speed [] std = "GDDR5" -> GDDR5_speed [] std = "HBM" -> HBM_speed
    [] std = "WideIO" -> WideIO_speed [] std = "WideIO2" -> WideIO2_table [] std = "PCM" -> PCM_speed
    [] std = "STTMRAM" -> STTMRAM_speed [] std = "ALDRAM" -> ALDRAM_table [] std = "TLDRAM" -> TLDRAM_speed
    [] std \in {"SALP_1", "SALP_2", "MASA"} -> SALP_speed
    [] std \in {"REFAB", "DSARP"} -> DSARP_speed

timing(std) ==
  LET s == speed(std)
  IN CASE std = "DDR3" -> DDR3_timing(s) [] std = "DDR4" -> DDR4_timing(s) [] std = "LPDDR3" -> LPDDR3_timing(s)
       [] std = "LPDDR4" -> LPDDR4_timing(s) [] std = "GDDR5" -> GDDR5_timing(s) [] std = "HBM" -> HBM_timing(s)
       [] std = "WideIO" -> WideIO_timing(s) [] std = "WideIO2" -> WideIO2_timing(s) [] std = "PCM" -> PCM_timing(s)
       [] std = "STTMRAM" -> STTMRAM_timing(s) [] std = "ALDRAM" -> ALDRAM_timing(s)
       [] std = "TLDRAM" -> TLDRAM_rank(s) \cup TLDRAM_bank(s)
       [] std \in {"SALP_1", "SALP_2", "MASA"} -> SALP_timing(s) \cup SALP_siblings(std, s)
       [] std \in {"REFAB", "DSARP"} -> DSARP_timing(s) \cup DSARP_refresh(std, s)
=============================================================================
