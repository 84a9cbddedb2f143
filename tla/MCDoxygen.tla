-------------------------------- MODULE MCDoxygen --------------------------------
EXTENDS DoxygenDocument

MCRoots == DOMAIN Schema

\* Long documents for the descriptions, which nest, and for the classes whose
\* order of children matters; two children for the others.
MCMaxNodes ==
  [c \in MCRoots |-> CASE c = "descriptionType" -> 5
                       [] c \in {"compoundRefType", "linkedTextType", "docParamListItem", "CompoundType"} -> 4
                       [] OTHER -> 3]

================================================================================
