------------------------------ MODULE MCCfCompute ------------------------------
(***************************************************************************)
(* Arguments for cfcompute_task: one baseline class, the other axes short, *)
(* grids of 1 to 3 cells a side, cuts of the rows of the ATermTable, and   *)
(* once memory that does not start with zeros.                             *)
(***************************************************************************)
EXTENDS CfCompute

\* a coefficient of polynomial number i of the basis
Zc(c, i, sto, frq) ==
    [value |-> c, blc |-> 0, sto |-> sto, frq |-> frq] @@ zernike_inverse_index(i)

\* the arguments that cfcompute_task has, but for the sizes
Plain ==
    [grid |-> [a |-> 3, w |-> 3, ps |-> 3], scales |-> <<1, 2>>, ws |-> <<2, 22>>,
     blcs |-> <<0>>, pas |-> <<0, 1>>, frqs |-> <<200>>, out |-> <<1>>, in |-> <<1>>,
     zcs |-> {Zc("c0", 0, 1, 200), Zc("c1", 3, 1, 200), Zc("c2", 5, 1, 200)},
     cut |-> <<>>, wcut |-> <<>>, memory |-> "zero"]

\* frequencies of the coefficients near and far, some Stokes values without any
Coefs == {Zc("c3", 0, 1, 200), Zc("c4", 1, 1, 201), Zc("c5", 2, 1, 300), Zc("c6", 0, 2, 250)}

MCInputs ==
    {Plain,
     [Plain EXCEPT !.grid.ps = 1, !.ws = <<2>>, !.frqs = <<200, 290>>, !.zcs = Coefs,
                   !.cut = <<<<"FREQUENCY", 1>>>>],
     [Plain EXCEPT !.grid = [a |-> 1, w |-> 1, ps |-> 1], !.wcut = <<<<"W", 1>>>>,
                   !.out = <<2, 1>>, !.in = <<2, 1>>, !.zcs = Coefs,
                   !.frqs = <<200, 290, 260>>, !.pas = <<0>>,
                   !.cut = <<<<"FREQUENCY", 2>>, <<"BASELINE_CLASS", 1>>>>],
     [Plain EXCEPT !.grid = [a |-> 3, w |-> 1, ps |-> 1], !.zcs = Coefs, !.scales = <<1>>,
                   !.cut = <<<<"FREQUENCY", 1>>, <<"PARALLACTIC_ANGLE", 1>>>>],
     [Plain EXCEPT !.grid = [a |-> 2, w |-> 2, ps |-> 2], !.memory = "junk"]}

MCStrays == {-1, 0, 3}

ASSUME MCInputsServe == InputsServe

==============================================================================
