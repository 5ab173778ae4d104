------------------------------ MODULE MCRowSync ------------------------------
(* RowSync with four table maps and a few values. *)
EXTENDS RowSync

CONSTANTS a, day, top

\* A name; a column without a rule.
People ==
  [keys |-> {"id"}, valiFields |-> <<"id", "name", "grade">>,
   columnType |-> [id |-> "number", name |-> "varchar2", grade |-> "other"],
   fieldsMap |-> [id |-> "id", name |-> "fullname", grade |-> "grade"],
   toType |-> [id |-> "number", fullname |-> "varchar2", grade |-> "other"]]

\* A number outside the key.
Ages ==
  [keys |-> {"id"}, valiFields |-> <<"id", "age">>,
   columnType |-> [id |-> "number", age |-> "number"],
   fieldsMap |-> [id |-> "id", age |-> "age"],
   toType |-> [id |-> "number", age |-> "number"]]

\* A date, whose name another column has in the target.
Births ==
  [keys |-> {"id"}, valiFields |-> <<"id", "place", "born">>,
   columnType |-> [id |-> "number", place |-> "varchar2", born |-> "date"],
   fieldsMap |-> [id |-> "id", place |-> "born", born |-> "since"],
   toType |-> [id |-> "number", born |-> "varchar2", since |-> "date"]]

\* A key of two columns.
Codes ==
  [keys |-> {"id", "code"}, valiFields |-> <<"id", "code", "name">>,
   columnType |-> [id |-> "number", code |-> "varchar2", name |-> "varchar2"],
   fieldsMap |-> [id |-> "id", code |-> "code", name |-> "name"],
   toType |-> [id |-> "number", code |-> "varchar2", name |-> "varchar2"]]

FourMaps == {People, Ages, Births, Codes}
SomeNumbers == {2, 3, 6}
SomeKeys == {2, 4, 6}
SomeWords == {a, NullWord, Quoted}
TwoWords == {a, NullWord}
OneDate == {day}
OneText == {top}
===============================================================================
