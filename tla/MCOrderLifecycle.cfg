SPECIFICATION MCSpec
PROPERTY ImplementsCustody
