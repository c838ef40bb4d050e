------------------------------- MODULE Bme280 -------------------------------
(***************************************************************************)
(* BME280::read: from the registers of the sensor to temperature and       *)
(* humidity in whole numbers.  A right shift of an int32_t is a division   *)
(* that rounds down; every intermediate value must fit 32 bits, or the     *)
(* evaluation fails.  The pressure, which needs 64 bits, is left out.      *)
(***************************************************************************)
EXTENDS Integers, Sequences

CONSTANTS
  Calibrations,  \* calibrations of some sensors
  RawT,          \* temperature readings to try, of 20 bits
  RawH           \* humidity readings to try, of 16 bits

VARIABLES
  sensor,        \* the calibration stored in the sensor
  cal,           \* cal_
  values         \* the last values read, and the registers they came from

bmeVars == <<sensor, cal, values>>

Asr(x, k) == x \div 2 ^ k

Signed(x, w) == IF x >= 2 ^ (w - 1) THEN x - 2 ^ w ELSE x

(* u16_le, s16_le at byte i of b, bytes counted from 0.                    *)
U16(b, i) == b[i + 1] + 256 * b[i + 2]
S16(b, i) == Signed(U16(b, i), 16)

SignExtend12(x) == Signed(x % 4096, 12)

(* readCalibration: the two blocks of registers; H4 and H5 share a byte.   *)
Calibration(b1, b2) ==
  [T1 |-> U16(b1, 0), T2 |-> S16(b1, 2), T3 |-> S16(b1, 4),
   H1 |-> b1[26], H2 |-> S16(b2, 0), H3 |-> b2[3],
   H4 |-> SignExtend12(16 * b2[4] + (b2[5] % 16)),
   H5 |-> SignExtend12(16 * b2[6] + b2[5] \div 16),
   H6 |-> Signed(b2[7], 8), tFine |-> 0]

(* readRaw.                                                                *)
Raw(r) ==
  [t |-> 4096 * r[4] + 16 * r[5] + r[6] \div 16,
   h |-> 256 * r[7] + r[8]]

(* compensateTemperature01C; it leaves t_fine in cal_.                     *)
TFine(c, t) ==
  LET d == Asr(t, 4) - c.T1
  IN  Asr((Asr(t, 3) - 2 * c.T1) * c.T2, 11) + Asr(Asr(d * d, 12) * c.T3, 14)

Temperature01C(tFine) == Asr(tFine * 5 + 128, 8)

(* compensateHumidity1024.                                                 *)
Humidity1024(c, tFine, h) ==
  LET v == tFine - 76800
      scale == Asr(Asr(v * c.H6, 10) * (Asr(v * c.H3, 11) + 32768), 10) + 2097152
      x == Asr(h * 2 ^ 14 - c.H4 * 2 ^ 20 - c.H5 * v + 16384, 15)
             * Asr(scale * c.H2 + 8192, 14)
      y == x - Asr(Asr(Asr(x, 15) * Asr(x, 15), 7) * c.H1, 4)
  IN  Asr(IF y < 0 THEN 0 ELSE IF y > 419430400 THEN 419430400 ELSE y, 12)

-----------------------------------------------------------------------------
(* The registers of the sensor.                                            *)
Bytes(x) == <<x % 256, (x % 65536) \div 256>>

Unused == [i \in 1 .. 18 |-> 255]   \* P1 to P9

Block1(c) == Bytes(c.T1) \o Bytes(c.T2) \o Bytes(c.T3) \o Unused \o <<0, c.H1>>

Block2(c) ==
  Bytes(c.H2) \o <<c.H3, (c.H4 % 4096) \div 16, 16 * (c.H5 % 16) + (c.H4 % 16),
                   (c.H5 % 4096) \div 16, c.H6 % 256>>

Registers(t, h) ==
  <<128, 0, 0, t \div 4096, (t \div 16) % 256, 16 * (t % 16), h \div 256, h % 256>>

BmeInit ==
  /\ sensor \in Calibrations
  /\ cal = Calibration(Block1(sensor), Block2(sensor))
  /\ values = [t |-> 0, h |-> 0, temperature |-> 0, humidity |-> 0, any |-> FALSE]

(* Mutant of ReadValues: the humidity is computed before the temperature.  *)
ReadValuesStale(raw) ==
  /\ cal' = [cal EXCEPT !.tFine = TFine(cal, raw.t)]
  /\ values' = [t |-> raw.t, h |-> raw.h, any |-> TRUE,
                temperature |-> Temperature01C(cal'.tFine),
                humidity |-> Humidity1024(cal, cal.tFine, raw.h)]

(* read.                                                                   *)
ReadValues(raw) ==
  /\ cal' = [cal EXCEPT !.tFine = TFine(cal, raw.t)]
  /\ values' = [t |-> raw.t, h |-> raw.h, any |-> TRUE,
                temperature |-> Temperature01C(cal'.tFine),
                humidity |-> Humidity1024(cal, cal'.tFine, raw.h)]

BmeNext ==
  /\ \E t \in RawT, h \in RawH : ReadValues(Raw(Registers(t, h)))
  /\ UNCHANGED sensor

-----------------------------------------------------------------------------
(* Every reading follows the air and nothing else: what read returns       *)
(* depends on the calibration stored in the sensor and on this reading's   *)
(* registers, not on the reading before, although t_fine is kept in the    *)
(* object; warmer never reads as colder, nor damper as drier.              *)
FollowsTheAir ==
  /\ values'.temperature = Temperature01C(TFine(sensor, values'.t))
  /\ values'.humidity = Humidity1024(sensor, TFine(sensor, values'.t), values'.h)
  /\ values.any /\ values.t <= values'.t => values.temperature <= values'.temperature
  /\ values.any /\ values.t = values'.t /\ values.h <= values'.h =>
       values.humidity <= values'.humidity

ReadingsFollowTheAir == [][FollowsTheAir]_bmeVars
=============================================================================
