---------------------------- MODULE MCSimpleTest ----------------------------
(***************************************************************************)
(* addition_test/simple_test.bin on the machine of tomasulo_sim.h, from    *)
(* the registers and the memory main.cpp sets up, the array at address 64  *)
(* instead of 0x1000 so that a word needs few bits.                        *)
(***************************************************************************)
EXTENDS MCTomasulo

VARIABLE cycle          \* turns of the loop completed
MaxCycles == 60         \* where the count stops if simulate() does not

t0 == x(5)
t1 == x(6)

(* The five words of simple_test.bin, as the loader hands them over. *)
Binary == INSTANCE Encoding
SimpleWords ==
  <<Binary!Assembled(7, 0, 3, 5, 0, 0),        \* 0002b007  fld    f0,0(x5)
    Binary!Assembled(83, 4, 7, 0, 2, 9),       \* 12207253  fmul.d f4,f0,f2
    Binary!Assembled(39, 0, 3, 5, 4, 0),       \* 0042b027  fsd    f4,0(x5)
    Binary!Assembled(19, 5, 0, 5, 24, 127),    \* ff828293  addi   x5,x5,-8
    Binary!Assembled(99, 17, 1, 5, 6, 127)>>   \* fe6298e3  bne    x5,x6,LOOP
SimpleTest ==
  {[k \in DOMAIN SimpleWords |-> Binary!decode_instruction(SimpleWords[k])]}

base_addr == 64
input_data == 1 .. 8
Element(n) == <<"fp", base_addr + 8 * (n - 1)>>
MainRegs ==
  {[r \in Reg |-> CASE r = t0 -> <<"int", Element(8)[2]>>
                    [] r = t1 -> <<"int", Element(1)[2]>>
                    [] r = f(2) -> <<"fp", 2>>
                    [] OTHER -> <<r[1], 0>>]}
MainMemory ==
  {[a \in {Element(n) : n \in input_data} |->
      CHOOSE v \in {<<"fp", n>> : n \in input_data} : a = Element(v[2])]}

SimpleInit == Init /\ cycle = 0
SimpleNext ==
  /\ Next
  /\ cycle' = IF stage = "broadcast" /\ cycle < MaxCycles THEN cycle + 1 ELSE cycle
SimpleSpec ==
  SimpleInit /\ [][SimpleNext]_<<vars, cycle>> /\ WF_<<vars, cycle>>(SimpleNext)

(* Readme.md, "Results" and "Result Analysis": the run takes 41 cycles and *)
(* doubles every element of the array but the one at base_addr.            *)
ReadmeResults ==
  /\ stage = "done" <=> cycle = 41
  /\ stage = "done" =>
       \A n \in input_data :
         memory[Element(n)] = <<"fp", IF n = 1 THEN 1 ELSE 2 * n>>
=============================================================================
