------------------------------ MODULE MCHarness ------------------------------
(* Two skill packs on the hub and a knowledge pack the lockfile pins, each of  *)
(* two releases; a preferred skill and a required capability.  The linting     *)
(* pack's documents call themselves something else, and each of its releases   *)
(* shares a skill with one of the testing pack.                                *)
EXTENDS HarnessSession
CONSTANTS linting, testing, facts, style, test, unit, cover, ruff

MCDeclared   == Only(facts, 1)
MCApproved   == {linting, testing} \X Versions
MCDocId      == [r \in Releases |-> IF r[1] = linting THEN ruff ELSE r[1]]
MCSkill(id, n, ok) == [id |-> id, covers |-> {n}, allowed |-> ok]
MCSkills     == [r \in Releases |->
    CASE r = <<linting, 1>> -> {MCSkill(style, style, TRUE)}
      [] r = <<linting, 2>> -> {MCSkill(cover, test, TRUE)}
      [] r = <<testing, 1>> -> {MCSkill(unit, test, TRUE), MCSkill(cover, test, FALSE)}
      [] r = <<testing, 2>> -> {MCSkill(style, style, TRUE)}
      [] OTHER              -> {}]
MCStrategies == <<"retry", "graceful-partial">>
=============================================================================
